---------------------------- MODULE Spec2Model ----------------------------
(***************************************************************************)
(* A model of tailscale-bind-ddns: the record synthesizer (pkg/app), the   *)
(* Bind DDNS client (pkg/bind), the Tailscale poller (pkg/tailscale) and   *)
(* the pipeline App.Run wires them into.                                   *)
(*                                                                         *)
(* Go strings are modelled as sequences of one-character strings, so that  *)
(* splitting, trimming, replacing and formatting are computed and not      *)
(* assumed.                                                                *)
(***************************************************************************)
EXTENDS Integers, Sequences, FiniteSets, TLC

(***************************************************************************)
(* Characters and the string helpers of the Go standard library the code   *)
(* calls.                                                                  *)
(***************************************************************************)
LowerAlpha == <<"a","b","c","d","e","f","g","h","i","j","k","l","m",
                "n","o","p","q","r","s","t","u","v","w","x","y","z">>

UpperAlpha == <<"A","B","C","D","E","F","G","H","I","J","K","L","M",
                "N","O","P","Q","R","S","T","U","V","W","X","Y","Z">>

Digits == <<"0","1","2","3","4","5","6","7","8","9">>

Range(s) == {s[i] : i \in DOMAIN s}

IsLetter(c) == c \in Range(LowerAlpha) \cup Range(UpperAlpha)

IsDigit(c) == c \in Range(Digits)

\* strings.ToLower on one character: only A-Z change.
ToLowerChar(c) ==
    IF \E i \in DOMAIN UpperAlpha : UpperAlpha[i] = c
    THEN LowerAlpha[CHOOSE i \in DOMAIN UpperAlpha : UpperAlpha[i] = c]
    ELSE c

ToLower(s) == [i \in DOMAIN s |-> ToLowerChar(s[i])]

\* The index of the first c in s, 0 when there is none.
IndexOf(s, c) ==
    IF \E i \in DOMAIN s : s[i] = c
    THEN CHOOSE i \in DOMAIN s : s[i] = c /\ \A j \in 1..(i - 1) : s[j] # c
    ELSE 0

\* strings.Split(s, sep) for a one-character separator: always at least
\* one part, empty parts kept.
RECURSIVE Split(_, _)
Split(s, sep) ==
    LET i == IndexOf(s, sep)
    IN  IF i = 0 THEN <<s>>
        ELSE <<SubSeq(s, 1, i - 1)>> \o Split(SubSeq(s, i + 1, Len(s)), sep)

\* strings.Join(parts, sep).
RECURSIVE Join(_, _)
Join(parts, sep) ==
    IF Len(parts) = 0 THEN <<>>
    ELSE IF Len(parts) = 1 THEN parts[1]
    ELSE parts[1] \o sep \o Join(Tail(parts), sep)

\* strings.Trim(s, cutset): leading and trailing characters of cutset go.
RECURSIVE TrimLeft(_, _)
TrimLeft(s, cutset) ==
    IF Len(s) > 0 /\ s[1] \in cutset THEN TrimLeft(Tail(s), cutset) ELSE s

RECURSIVE TrimRight(_, _)
TrimRight(s, cutset) ==
    IF Len(s) > 0 /\ s[Len(s)] \in cutset
    THEN TrimRight(SubSeq(s, 1, Len(s) - 1), cutset)
    ELSE s

Trim(s, cutset) == TrimRight(TrimLeft(s, cutset), cutset)

HasSuffix(s, suffix) ==
    /\ Len(s) >= Len(suffix)
    /\ SubSeq(s, Len(s) - Len(suffix) + 1, Len(s)) = suffix

\* strings.TrimSuffix(s, suffix): s without the suffix, s itself when it
\* does not end with it.
TrimSuffix(s, suffix) ==
    IF HasSuffix(s, suffix) THEN SubSeq(s, 1, Len(s) - Len(suffix)) ELSE s

\* strings.Contains(s, substr).
Contains(s, substr) ==
    \E i \in 1..(Len(s) - Len(substr) + 1) :
        SubSeq(s, i, i + Len(substr) - 1) = substr

(***************************************************************************)
(* sanitizeDNSName (pkg/app).                                              *)
(***************************************************************************)
\* regexp [^a-zA-Z0-9.-] replaced by "-": each character that is no letter,
\* digit, dot or hyphen becomes one hyphen.
ReplaceInvalid(s) ==
    [i \in DOMAIN s |->
        IF IsLetter(s[i]) \/ IsDigit(s[i]) \/ s[i] \in {".", "-"}
        THEN s[i] ELSE "-"]

\* A replacement that leaves runs of hyphens as they are.
KeepHyphens(s) == s

\* regexp -+ replaced by "-": every run of hyphens becomes one hyphen.
RECURSIVE CollapseHyphens(_)
CollapseHyphens(s) ==
    IF Len(s) < 2 THEN s
    ELSE IF s[1] = "-" /\ s[2] = "-" THEN CollapseHyphens(Tail(s))
    ELSE <<s[1]>> \o CollapseHyphens(Tail(s))

Placeholder == <<"m","a","c","h","i","n","e">>

sanitizeDNSName(name) ==
    LET hostname  == Split(name, ".")[1]
        replaced  == ReplaceInvalid(hostname)
        collapsed == CollapseHyphens(replaced)
        trimmed   == Trim(collapsed, {"-", "."})
        sanitized == IF trimmed = <<>> THEN Placeholder ELSE trimmed
    IN  ToLower(sanitized)

(***************************************************************************)
(* Numbers and their text: fmt.Sprintf("%d") and ("%x"), and the parsers   *)
(* of package net the Bind client calls.  An IP is the sequence of its 16  *)
(* bytes (an IPv4 address is stored v4-in-v6, as net.ParseIP does); nil is *)
(* the empty sequence.                                                     *)
(***************************************************************************)
HexDigits == <<"0","1","2","3","4","5","6","7","8","9","a","b","c","d","e","f">>

DigitValue(c) == (CHOOSE i \in DOMAIN Digits : Digits[i] = c) - 1

IsHexDigit(c) == ToLowerChar(c) \in Range(HexDigits)

HexValue(c) ==
    (CHOOSE i \in DOMAIN HexDigits : HexDigits[i] = ToLowerChar(c)) - 1

\* fmt.Sprintf("%d", n) for n >= 0.
RECURSIVE ToDec(_)
ToDec(n) == IF n < 10 THEN <<Digits[n + 1]>>
            ELSE ToDec(n \div 10) \o <<Digits[(n % 10) + 1]>>

\* fmt.Sprintf("%x", n) for a nibble.
ToHex(n) == <<HexDigits[n + 1]>>

RECURSIVE Pow2(_)
Pow2(n) == IF n = 0 THEN 1 ELSE 2 * Pow2(n - 1)

NoIP == <<>>

V4InV6Prefix == <<0, 0, 0, 0, 0, 0, 0, 0, 0, 0, 255, 255>>

\* One dotted field of netip.parseIPv4Fields: digits only, at least one,
\* no leading zero, at most 255.  -1 when it is refused.
RECURSIVE DecValue(_)
DecValue(s) == IF Len(s) = 0 THEN 0
               ELSE 10 * DecValue(SubSeq(s, 1, Len(s) - 1)) + DigitValue(s[Len(s)])

ByteOrRefused(v) == IF v > 255 THEN -1 ELSE v

IPv4Field(s) ==
    IF Len(s) = 0 \/ Len(s) > 3 \/ \E i \in DOMAIN s : ~IsDigit(s[i]) THEN -1
    ELSE IF Len(s) > 1 /\ s[1] = "0" THEN -1
    ELSE ByteOrRefused(DecValue(s))

BytesOrNil(fields) ==
    IF \A i \in DOMAIN fields : fields[i] >= 0 THEN fields ELSE NoIP

FieldsToBytes(f) ==
    IF Len(f) = 4 THEN BytesOrNil([i \in 1..4 |-> IPv4Field(f[i])]) ELSE NoIP

\* netip.parseIPv4Fields: exactly four fields; the four bytes, or nil.
ParseIPv4Fields(s) == FieldsToBytes(Split(s, "."))

\* The length of the run of hexadecimal digits s starts with.
RECURSIVE HexRunLen(_)
HexRunLen(s) == IF Len(s) > 0 /\ IsHexDigit(s[1]) THEN 1 + HexRunLen(Tail(s)) ELSE 0

RECURSIVE HexRunValue(_)
HexRunValue(s) ==
    IF Len(s) = 0 THEN 0
    ELSE 16 * HexRunValue(SubSeq(s, 1, Len(s) - 1)) + HexValue(s[Len(s)])

V6Fail == [ok |-> FALSE, ip |-> <<>>, ellipsis |-> -1, rest |-> <<>>]

V6Done(ip, ellipsis, rest) ==
    [ok |-> TRUE, ip |-> ip, ellipsis |-> ellipsis, rest |-> rest]

\* The two bytes of a 16-bit group.
GroupBytes(acc) == <<acc \div 256, acc % 256>>

\* A trailing dotted IPv4 address, v4 being its four bytes or nil.
V6Embedded(ip, ellipsis, v4) ==
    IF (ellipsis < 0 /\ Len(ip) # 12) \/ Len(ip) + 4 > 16 THEN V6Fail
    ELSE IF v4 = NoIP THEN V6Fail
    ELSE V6Done(ip \o v4, ellipsis, <<>>)

\* The loop of netip.parseIPv6: s is the text left, ip the bytes parsed so
\* far, ellipsis the place of "::" among them (-1: none seen).  V6Group
\* reads the group of off hexadecimal digits s starts with, V6Separator
\* what follows it.
RECURSIVE V6Loop(_, _, _)
RECURSIVE V6Group(_, _, _, _)
RECURSIVE V6Separator(_, _, _)
V6Loop(s, ip, ellipsis) ==
    IF Len(ip) >= 16 THEN V6Done(ip, ellipsis, s)
    ELSE V6Group(s, ip, ellipsis, HexRunLen(s))

V6Group(s, ip, ellipsis, off) ==
    IF off = 0 \/ off > 4 THEN V6Fail
    ELSE IF off < Len(s) /\ s[off + 1] = "."
    THEN V6Embedded(ip, ellipsis, ParseIPv4Fields(s))
    ELSE V6Separator(SubSeq(s, off + 1, Len(s)),
                     ip \o GroupBytes(HexRunValue(SubSeq(s, 1, off))), ellipsis)

V6Separator(s, ip, ellipsis) ==
    IF Len(s) = 0 THEN V6Done(ip, ellipsis, s)
    ELSE IF s[1] # ":" \/ Len(s) = 1 THEN V6Fail
    ELSE IF s[2] = ":" THEN
        IF ellipsis >= 0 THEN V6Fail
        ELSE IF Len(s) = 2 THEN V6Done(ip, Len(ip), <<>>)
        ELSE V6Loop(SubSeq(s, 3, Len(s)), ip, Len(ip))
    ELSE V6Loop(Tail(s), ip, ellipsis)

Zeros(n) == [i \in 1..n |-> 0]

\* The end of netip.parseIPv6: nothing may be left, and "::" stands for
\* the zero bytes that are missing.
V6Expand(r) ==
    IF ~r.ok \/ Len(r.rest) # 0 THEN NoIP
    ELSE IF Len(r.ip) < 16 THEN
        IF r.ellipsis < 0 THEN NoIP
        ELSE SubSeq(r.ip, 1, r.ellipsis) \o Zeros(16 - Len(r.ip))
             \o SubSeq(r.ip, r.ellipsis + 1, Len(r.ip))
    ELSE IF r.ellipsis >= 0 THEN NoIP
    ELSE r.ip

\* netip.parseIPv6 without a zone (net.ParseIP refuses a zone): the 16
\* bytes, or nil.
ParseIPv6(s) ==
    IF Len(s) >= 2 /\ s[1] = ":" /\ s[2] = ":"
    THEN IF Len(s) = 2 THEN V6Expand(V6Done(<<>>, 0, <<>>))
         ELSE V6Expand(V6Loop(SubSeq(s, 3, Len(s)), <<>>, 0))
    ELSE V6Expand(V6Loop(s, <<>>, -1))

RECURSIVE FirstOf(_, _)
FirstOf(s, set) == IF Len(s) = 0 THEN ""
                   ELSE IF s[1] \in set THEN s[1] ELSE FirstOf(Tail(s), set)

\* The 16-byte form of four IPv4 bytes.
V4InV6(v4) == IF v4 = NoIP THEN NoIP ELSE V4InV6Prefix \o v4

ParseAs(c, s) ==
    IF c = "." THEN V4InV6(ParseIPv4Fields(s))
    ELSE IF c = ":" THEN ParseIPv6(s)
    ELSE NoIP

\* net.ParseIP: netip.ParseAddr decides by the first '.', ':' or '%' of the
\* text; the result is the 16-byte form, nil when the text is no address.
ParseIP(s) == ParseAs(FirstOf(s, {".", ":", "%"}), s)

\* IP.To4: the four bytes of an IPv4 (or v4-in-v6) address, nil otherwise.
To4(ip) ==
    IF Len(ip) = 4 THEN ip
    ELSE IF Len(ip) = 16 /\ SubSeq(ip, 1, 12) = V4InV6Prefix THEN SubSeq(ip, 13, 16)
    ELSE NoIP

\* net.dtoi used on the whole mask text: digits only, at least one; -1
\* when refused (leading zeros are accepted).
MaskValue(s) ==
    IF Len(s) = 0 \/ Len(s) > 3 \/ \E i \in DOMAIN s : ~IsDigit(s[i]) THEN -1
    ELSE DecValue(s)

\* The bits of byte i (from 1) that a mask of `ones` leading ones keeps.
MaskedBits(i, ones) ==
    IF ones >= 8 * i THEN 8
    ELSE IF ones <= 8 * (i - 1) THEN 0
    ELSE ones - 8 * (i - 1)

\* Byte b without its `low` lowest bits.
HighBits(b, low) == b \div Pow2(low)

\* IP.Mask with a mask of `ones` leading ones.
MaskBytes(ip, ones) ==
    [i \in DOMAIN ip |->
        HighBits(ip[i], 8 - MaskedBits(i, ones)) * Pow2(8 - MaskedBits(i, ones))]

NoNet == [ok |-> FALSE, ip |-> NoIP, ones |-> 0, bits |-> 0]

CIDRNet(ip, bits, n) ==
    IF ip = NoIP \/ n < 0 \/ n > bits THEN NoNet
    ELSE [ok |-> TRUE, ones |-> n, bits |-> bits,
          ip |-> MaskBytes(IF bits = 32 THEN To4(ip) ELSE ip, n)]

CIDRParts(addr, mask) ==
    CIDRNet(ParseIP(addr),
            IF FirstOf(addr, {".", ":", "%"}) = "." THEN 32 ELSE 128,
            MaskValue(mask))

\* net.ParseCIDR: the network of "address/ones".  bits is 32 when the
\* address is written dotted and 128 otherwise.
ParseCIDR(s) ==
    IF IndexOf(s, "/") = 0 THEN NoNet
    ELSE CIDRParts(SubSeq(s, 1, IndexOf(s, "/") - 1),
                   SubSeq(s, IndexOf(s, "/") + 1, Len(s)))

\* Whether bytes a and b agree on their first `ones` bits.
SamePrefix(a, b, ones) ==
    \A i \in DOMAIN a :
        HighBits(a[i], 8 - MaskedBits(i, ones)) = HighBits(b[i], 8 - MaskedBits(i, ones))

\* An address as IPNet.Contains compares it: four bytes when it has an
\* IPv4 form.
Shortest(ip) == IF To4(ip) # NoIP THEN To4(ip) ELSE ip

\* net.networkNumberAndMask and the comparison of IPNet.Contains: nn is the
\* network number, x the address.  A 128-bit mask goes with a four-byte
\* network number only when its first 96 bits are ones.
ContainsBytes(nn, bits, ones, x) ==
    IF bits = 128 /\ Len(nn) = 4
    THEN ones >= 96 /\ Len(x) = 4 /\ SamePrefix(nn, x, ones - 96)
    ELSE Len(x) = Len(nn) /\ SamePrefix(nn, x, ones)

\* IPNet.Contains.
NetContains(net, ip) ==
    ContainsBytes(Shortest(net.ip), net.bits, net.ones, Shortest(ip))

(***************************************************************************)
(* The Bind client (pkg/bind): reverse names, reverse zones, PTR records.  *)
(* A client c is [zone, algorithm, ttl, ptrConfig]; ptrConfig.Nil models a *)
(* nil *config.PTRConfig.  A *DNSRecord is a sequence of no (nil) or one   *)
(* record.                                                                 *)
(***************************************************************************)
Dot == <<".">>

InAddrArpa == <<".","i","n","-","a","d","d","r",".","a","r","p","a">>

Ip6Arpa == <<".","i","p","6",".","a","r","p","a">>

DNSRecord(name, value, ttl, type) ==
    [Name |-> name, Value |-> value, TTL |-> ttl, Type |-> type]

InNet(ip, net) ==
    IF ip = NoIP THEN FALSE
    ELSE IF ~net.ok THEN FALSE
    ELSE NetContains(net, ip)

isIPInSubnet(ipStr, subnetStr) ==
    IF subnetStr = <<>> THEN FALSE
    ELSE InNet(ParseIP(ipStr), ParseCIDR(subnetStr))

\* The 32 nibbles of the 16 bytes, the low nibble of the last byte first.
ReverseNibbles(ip) ==
    [k \in 1..32 |->
        IF k % 2 = 1 THEN ToHex(ip[16 - ((k - 1) \div 2)] % 16)
        ELSE ToHex(ip[16 - ((k - 1) \div 2)] \div 16)]

NibbleName(ip) ==
    IF ip = NoIP THEN <<>>
    ELSE Join(ReverseNibbles(ip), Dot) \o Ip6Arpa \o Dot

ipv6ToReverseDNS(ipStr) == NibbleName(ParseIP(ipStr))

NoZone == [ok |-> FALSE, zone |-> <<>>]

\* A zone with the octets in the order of the address.
IPv4ZoneUnreversed(ipv4, subnetSize) ==
    IF ipv4 = NoIP THEN NoZone
    ELSE IF subnetSize = 8
    THEN [ok |-> TRUE, zone |-> ToDec(ipv4[1]) \o InAddrArpa]
    ELSE IF subnetSize = 16
    THEN [ok |-> TRUE,
          zone |-> ToDec(ipv4[1]) \o Dot \o ToDec(ipv4[2]) \o InAddrArpa]
    ELSE IF subnetSize = 24
    THEN [ok |-> TRUE,
          zone |-> ToDec(ipv4[1]) \o Dot \o ToDec(ipv4[2]) \o Dot
                   \o ToDec(ipv4[3]) \o InAddrArpa]
    ELSE NoZone

IPv4Zone(ipv4, subnetSize) ==
    IF ipv4 = NoIP THEN NoZone
    ELSE IF subnetSize = 8
    THEN [ok |-> TRUE, zone |-> ToDec(ipv4[1]) \o InAddrArpa]
    ELSE IF subnetSize = 16
    THEN [ok |-> TRUE,
          zone |-> ToDec(ipv4[2]) \o Dot \o ToDec(ipv4[1]) \o InAddrArpa]
    ELSE IF subnetSize = 24
    THEN [ok |-> TRUE,
          zone |-> ToDec(ipv4[3]) \o Dot \o ToDec(ipv4[2]) \o Dot
                   \o ToDec(ipv4[1]) \o InAddrArpa]
    ELSE NoZone

generateIPv4PTRZone(ipStr, subnetSize) == IPv4Zone(To4(ParseIP(ipStr)), subnetSize)

\* One nibble for every four bits of any subnet size.
nibblesOfAnySize(subnetSize) == subnetSize \div 4

\* The nibbles a subnet size stands for, 0 for an unsupported size.
nibblesToUse(subnetSize) ==
    IF subnetSize = 32 THEN 8
    ELSE IF subnetSize = 48 THEN 12
    ELSE IF subnetSize = 64 THEN 16
    ELSE 0

\* The last n of the nibble labels, as a zone.
LastNibbles(nibbleParts, n) ==
    IF n = 0 THEN NoZone
    ELSE IF Len(nibbleParts) < n THEN NoZone
    ELSE [ok |-> TRUE,
          zone |-> Join(SubSeq(nibbleParts, Len(nibbleParts) - n + 1,
                               Len(nibbleParts)), Dot) \o Ip6Arpa]

IPv6Zone(ip, nibbles, subnetSize) ==
    IF ip = NoIP \/ To4(ip) # NoIP THEN NoZone
    ELSE IF nibbles = <<>> THEN NoZone
    ELSE LastNibbles(Split(TrimSuffix(nibbles, Ip6Arpa \o Dot), "."),
                     nibblesToUse(subnetSize))

generateIPv6PTRZone(ipStr, subnetSize) ==
    IPv6Zone(ParseIP(ipStr), ipv6ToReverseDNS(ipStr), subnetSize)

getPTRZoneForIP(c, ipStr, isIPv6) ==
    IF ParseIP(ipStr) = NoIP THEN NoZone
    ELSE IF isIPv6 THEN
        IF ~c.ptrConfig.IPv6Enabled THEN NoZone
        ELSE generateIPv6PTRZone(ipStr, c.ptrConfig.IPv6SubnetSize)
    ELSE generateIPv4PTRZone(ipStr, c.ptrConfig.IPv4SubnetSize)

OctetsZone(octets, size) ==
    IF Len(octets) # 4 THEN <<>>
    ELSE IF size = 8 THEN octets[4] \o InAddrArpa
    ELSE IF size = 16 THEN octets[3] \o Dot \o octets[4] \o InAddrArpa
    ELSE IF size = 24
    THEN octets[2] \o Dot \o octets[3] \o Dot \o octets[4] \o InAddrArpa
    ELSE <<>>

\* The zone of an IPv4 PTR owner name, "" (the empty text) when there is
\* none.
extractIPv4ZoneFromPTRName(c, ptrName) ==
    IF c.ptrConfig.Nil \/ ~c.ptrConfig.Enabled THEN <<>>
    ELSE OctetsZone(Split(TrimSuffix(TrimSuffix(ptrName, InAddrArpa \o Dot), Dot),
                          "."),
                    c.ptrConfig.IPv4SubnetSize)

NibblesZone(nibbles, n) ==
    IF Len(nibbles) < 8 THEN <<>>
    ELSE IF n = 0 THEN <<>>
    ELSE IF Len(nibbles) < n THEN <<>>
    ELSE Join(SubSeq(nibbles, Len(nibbles) - n + 1, Len(nibbles)), Dot)
         \o Ip6Arpa

extractIPv6ZoneFromPTRName(c, ptrName) ==
    IF c.ptrConfig.Nil \/ ~c.ptrConfig.Enabled \/ ~c.ptrConfig.IPv6Enabled
    THEN <<>>
    ELSE NibblesZone(Split(TrimSuffix(TrimSuffix(ptrName, Ip6Arpa \o Dot), Dot),
                           "."),
                     nibblesToUse(c.ptrConfig.IPv6SubnetSize))

\* CreatePTRRecord returns (record, error).
NilRecord == [rec |-> <<>>, err |-> FALSE]

ErrRecord == [rec |-> <<>>, err |-> TRUE]

PTRRecord(ptrName, hostname, ttl) ==
    [rec |-> <<DNSRecord(ptrName, hostname, ttl, "PTR")>>, err |-> FALSE]

\* An IPv4 branch that does not look at the subnet.
IPv4PTRUnvalidated(inSubnet, parts, hostname, ttl) ==
    IF Len(parts) # 4 THEN ErrRecord
    ELSE PTRRecord(parts[4] \o Dot \o parts[3] \o Dot \o parts[2] \o Dot
                   \o parts[1] \o InAddrArpa \o Dot, hostname, ttl)

\* The IPv4 branch: the address is in the subnet or not, parts are the
\* dotted parts of its text.
IPv4PTR(inSubnet, parts, hostname, ttl) ==
    IF ~inSubnet THEN NilRecord
    ELSE IF Len(parts) # 4 THEN ErrRecord
    ELSE PTRRecord(parts[4] \o Dot \o parts[3] \o Dot \o parts[2] \o Dot
                   \o parts[1] \o InAddrArpa \o Dot, hostname, ttl)

\* An IPv6 branch that does not look at IPv6Enabled.
IPv6PTRUngated(c, ipStr, hostname) ==
    IF ~isIPInSubnet(ipStr, c.ptrConfig.IPv6Subnet) THEN NilRecord
    ELSE PTRRecord(ipv6ToReverseDNS(ipStr), hostname, c.ttl)

\* The IPv6 branch.
IPv6PTR(c, ipStr, hostname) ==
    IF ~c.ptrConfig.IPv6Enabled THEN NilRecord
    ELSE IF ~isIPInSubnet(ipStr, c.ptrConfig.IPv6Subnet) THEN NilRecord
    ELSE PTRRecord(ipv6ToReverseDNS(ipStr), hostname, c.ttl)

PTRFor(c, ip, ipStr, hostname) ==
    IF ip = NoIP THEN ErrRecord
    ELSE IF To4(ip) # NoIP
    THEN IPv4PTR(isIPInSubnet(ipStr, c.ptrConfig.IPv4Subnet),
                 Split(ipStr, "."), hostname, c.ttl)
    ELSE IPv6PTR(c, ipStr, hostname)

CreatePTRRecord(c, ipStr, hostname) ==
    IF c.ptrConfig.Nil \/ ~c.ptrConfig.Enabled THEN NilRecord
    ELSE PTRFor(c, ParseIP(ipStr), ipStr, hostname)

(***************************************************************************)
(* The record synthesizer (pkg/app).  An app a is [config, bindClient].    *)
(***************************************************************************)
\* time.Duration is counted in milliseconds; Duration.Seconds() cut to an
\* unsigned integer is the whole seconds.
MsPerSecond == 1000

Seconds(d) == d \div MsPerSecond

\* An owner label taken as it is: no fallback to the ID, no sanitizing.
rawName(machine) == machine.Name

\* The owner label of a machine: its name, its ID when the name is empty,
\* sanitized.
recordName(machine) ==
    sanitizeDNSName(IF machine.Name = <<>> THEN machine.ID ELSE machine.Name)

\* The records the loop body of machinesToRecords appends for one online
\* machine whose sanitized name is name.
ForwardRecords(machine, name, ttl) ==
    (IF machine.IPv4Address # <<>>
     THEN <<DNSRecord(name, machine.IPv4Address, ttl, "A")>> ELSE <<>>)
    \o (IF machine.IPv6Address # <<>>
        THEN <<DNSRecord(name, machine.IPv6Address, ttl, "AAAA")>> ELSE <<>>)

RECURSIVE machinesToRecords(_, _)
machinesToRecords(a, machines) ==
    IF Len(machines) = 0 THEN <<>>
    ELSE (IF ~machines[1].Online THEN <<>>
          ELSE ForwardRecords(machines[1], recordName(machines[1]),
                              Seconds(a.config.Bind.TTL)))
         \o machinesToRecords(a, Tail(machines))

\* What the loop body of createPTRRecords appends, v4 and v6 being the
\* results of CreatePTRRecord: an error on the IPv4 address leaves the body
\* (continue), so the IPv6 result is not looked at.
Appended(v4, v6) ==
    IF v4.err THEN <<>>
    ELSE IF v6.err THEN v4.rec
    ELSE v4.rec \o v6.rec

PTRIfAny(c, ipStr, hostname) ==
    IF ipStr # <<>> THEN CreatePTRRecord(c, ipStr, hostname) ELSE NilRecord

PTRsNamed(a, machine, hostname) ==
    Appended(PTRIfAny(a.bindClient, machine.IPv4Address, hostname),
             PTRIfAny(a.bindClient, machine.IPv6Address, hostname))

\* The PTR records of one online machine.
machinePTRRecords(a, machine) ==
    PTRsNamed(a, machine, recordName(machine) \o Dot \o a.config.Bind.Zone)

\* A PTR loop that does not look at the online flag.
RECURSIVE ptrRecordsOfAll(_, _)
ptrRecordsOfAll(a, machines) ==
    IF Len(machines) = 0 THEN <<>>
    ELSE machinePTRRecords(a, machines[1]) \o ptrRecordsOfAll(a, Tail(machines))

RECURSIVE ptrRecordsOf(_, _)
ptrRecordsOf(a, machines) ==
    IF Len(machines) = 0 THEN <<>>
    ELSE (IF ~machines[1].Online THEN <<>> ELSE machinePTRRecords(a, machines[1]))
         \o ptrRecordsOf(a, Tail(machines))

createPTRRecords(a, machines) ==
    IF ~a.config.Bind.PTR.Enabled THEN <<>>
    ELSE ptrRecordsOf(a, machines)

\* bind.NewClient as NewApp calls it: the client holds the forward zone,
\* the algorithm, the TTL in seconds and a pointer to the PTR configuration.
NewClient(config) ==
    [zone      |-> config.Bind.Zone,
     algorithm |-> config.Bind.Algorithm,
     ttl       |-> Seconds(config.Bind.TTL),
     ptrConfig |-> [Nil            |-> FALSE,
                    Enabled        |-> config.Bind.PTR.Enabled,
                    IPv4Subnet     |-> config.Bind.PTR.IPv4Subnet,
                    IPv4SubnetSize |-> config.Bind.PTR.IPv4SubnetSize,
                    IPv6Enabled    |-> config.Bind.PTR.IPv6Enabled,
                    IPv6Subnet     |-> config.Bind.PTR.IPv6Subnet,
                    IPv6SubnetSize |-> config.Bind.PTR.IPv6SubnetSize]]

NewApp(config) == [config |-> config, bindClient |-> NewClient(config)]

(***************************************************************************)
(* UpdateRecords (pkg/bind): grouping by zone, the TSIG key, and the       *)
(* update message of one zone.                                             *)
(***************************************************************************)
DefaultAlgorithm == "hmac-sha256"

SupportedAlgorithms ==
    {"hmac-md5", "hmac-sha1", "hmac-sha256", "hmac-sha384", "hmac-sha512"}

\* A createTSIGKey without the switch over the algorithm names.
createTSIGKeyAnyAlgorithm(c) ==
    [ok |-> TRUE,
     Algorithm |-> (IF c.algorithm = "" THEN DefaultAlgorithm ELSE c.algorithm) \o "."]

\* createTSIGKey returns (key, error): the key names the algorithm with a
\* trailing dot.
createTSIGKey(c) ==
    LET algorithm == IF c.algorithm = "" THEN DefaultAlgorithm ELSE c.algorithm
    IN  IF algorithm \in SupportedAlgorithms
        THEN [ok |-> TRUE, Algorithm |-> algorithm \o "."]
        ELSE [ok |-> FALSE, Algorithm |-> ""]

\* The zone a record is grouped under, the empty text when it has none.
zoneOf(c, record) ==
    IF record.Type = "PTR" THEN
        IF Contains(record.Name, InAddrArpa \o Dot)
        THEN extractIPv4ZoneFromPTRName(c, record.Name)
        ELSE IF Contains(record.Name, Ip6Arpa \o Dot)
        THEN extractIPv6ZoneFromPTRName(c, record.Name)
        ELSE <<>>
    ELSE c.zone

RECURSIVE SelectZone(_, _, _)
SelectZone(c, records, zone) ==
    IF Len(records) = 0 THEN <<>>
    ELSE (IF zoneOf(c, records[1]) = zone THEN <<records[1]>> ELSE <<>>)
         \o SelectZone(c, Tail(records), zone)

\* recordsByZone: every non-empty zone of the set, with its records in the
\* order of the set.
recordsByZone(c, records) ==
    LET zones == {zoneOf(c, records[i]) : i \in DOMAIN records} \ {<<>>}
    IN  [zone \in zones |-> SelectZone(c, records, zone)]

\* dns.Fqdn: the name with a trailing dot.
Fqdn(s) == IF Len(s) > 0 /\ s[Len(s)] = "." THEN s ELSE s \o Dot

\* The insert before the delete-RRset.
recordOpsInsertFirst(zone, record) ==
    LET rrtype == IF record.Type = "PTR" THEN "PTR"
                  ELSE IF record.Type = "AAAA" THEN "AAAA" ELSE "A"
        name   == IF record.Type = "PTR" THEN Fqdn(record.Name)
                  ELSE Fqdn(record.Name \o Dot \o zone)
        data   == IF record.Type = "PTR" THEN Fqdn(record.Value)
                  ELSE ParseIP(record.Value)
    IN  << [op |-> "Insert", Name |-> name, Rrtype |-> rrtype,
            Ttl |-> record.TTL, Data |-> data],
           [op |-> "RemoveRRset", Name |-> name, Rrtype |-> rrtype,
            Ttl |-> 0, Data |-> <<>>] >>

\* The insert alone.
recordOpsInsertOnly(zone, record) ==
    LET rrtype == IF record.Type = "PTR" THEN "PTR"
                  ELSE IF record.Type = "AAAA" THEN "AAAA" ELSE "A"
        name   == IF record.Type = "PTR" THEN Fqdn(record.Name)
                  ELSE Fqdn(record.Name \o Dot \o zone)
        data   == IF record.Type = "PTR" THEN Fqdn(record.Value)
                  ELSE ParseIP(record.Value)
    IN  << [op |-> "Insert", Name |-> name, Rrtype |-> rrtype,
            Ttl |-> record.TTL, Data |-> data] >>

\* The delete-RRset alone.
recordOpsRemoveOnly(zone, record) ==
    LET rrtype == IF record.Type = "PTR" THEN "PTR"
                  ELSE IF record.Type = "AAAA" THEN "AAAA" ELSE "A"
        name   == IF record.Type = "PTR" THEN Fqdn(record.Name)
                  ELSE Fqdn(record.Name \o Dot \o zone)
    IN  << [op |-> "RemoveRRset", Name |-> name, Rrtype |-> rrtype,
            Ttl |-> 0, Data |-> <<>>] >>

\* The delete-RRset and the insert that sendZoneUpdate adds for one record.
recordOps(zone, record) ==
    IF record.Type = "PTR" THEN
        << [op |-> "RemoveRRset", Name |-> Fqdn(record.Name), Rrtype |-> "PTR",
            Ttl |-> 0, Data |-> <<>>],
           [op |-> "Insert", Name |-> Fqdn(record.Name), Rrtype |-> "PTR",
            Ttl |-> record.TTL, Data |-> Fqdn(record.Value)] >>
    ELSE
        LET rrtype == IF record.Type = "AAAA" THEN "AAAA" ELSE "A"
            name   == Fqdn(record.Name \o Dot \o zone)
        IN  << [op |-> "RemoveRRset", Name |-> name, Rrtype |-> rrtype,
                Ttl |-> 0, Data |-> <<>>],
               [op |-> "Insert", Name |-> name, Rrtype |-> rrtype,
                Ttl |-> record.TTL, Data |-> ParseIP(record.Value)] >>

\* A message with the delete-RRsets of all records first and their inserts
\* after them.
updateOpsDeletesFirst(zone, records) ==
    [k \in 1..(2 * Len(records)) |->
        IF k <= Len(records) THEN recordOps(zone, records[k])[1]
        ELSE recordOps(zone, records[k - Len(records)])[2]]

RECURSIVE updateOps(_, _)
updateOps(zone, records) ==
    IF Len(records) = 0 THEN <<>>
    ELSE recordOps(zone, records[1]) \o updateOps(zone, Tail(records))

\* The message sendZoneUpdate builds and signs for one zone.
updateMsg(zone, records, key) ==
    [Zone |-> Fqdn(zone), Ns |-> updateOps(zone, records),
     Tsig |-> key.Algorithm]

NoMsg == [Zone |-> <<>>, Ns |-> <<>>, Tsig |-> ""]

(***************************************************************************)
(* State.                                                                  *)
(*                                                                         *)
(* cfg is the loaded configuration.  The pipeline (App.Run and its three   *)
(* goroutines) has one program counter per goroutine, the two channels     *)
(* and the context.  The other variables hold the arguments and results    *)
(* of the functions that are checked on their own.                         *)
(***************************************************************************)
VARIABLES
    cfg,            \* *config.Config
    ctxDone,        \* ctx.Done() is closed
    runPc,          \* App.Run: the statement it is at
    valErr,         \* App.Run: the error of ValidateConnection
    runErr,         \* App.Run: what it returned
    machineChan,    \* a.machineChan: [buf, closed]
    recordChan,     \* a.recordChan: [buf, closed]
    pollPc,         \* StartPolling: the statement it is at
    pollMachines,   \* StartPolling: machines
    convPc,         \* convertMachinesToRecords: the statement it is at
    convRecords,    \* convertMachinesToRecords: allRecords
    updPc,          \* StartUpdating: the statement it is at
    updRecords,     \* StartUpdating: records, as last received
    updErr,         \* StartUpdating: err, as UpdateRecords last returned it
    updByZone,      \* UpdateRecords: recordsByZone
    updPending,     \* UpdateRecords: zones the range loop has not visited
    updZone,        \* UpdateRecords: the zone the range loop is at
    updMsg,         \* sendZoneUpdate: msg
    panicked,       \* a goroutine panicked: the process is gone
    fetches,        \* calls of GetOnlineMachines so far
    ticks,          \* StartPolling: ticks its select has taken
    fetched,        \* calls of GetOnlineMachines that returned a roster
    published,      \* the rosters sent on a.machineChan, in order
    handed,         \* the record sets passed to UpdateRecords, in order
    updVia,         \* StartUpdating: the case whose UpdateRecords is running
    synPc,          \* the synthesizer: called or returned
    synMachines,    \* the roster handed to the synthesizer
    synRecords,     \* machinesToRecords: its result
    synPTR,         \* createPTRRecords: its result
    sanName,        \* sanitizeDNSName: name
    sanOut,         \* sanitizeDNSName: its result
    ptrPc,          \* the reverse-name functions: called or returned
    ptrIP,          \* CreatePTRRecord, generateIPv4PTRZone, ...: ipStr
    ptrRec,         \* CreatePTRRecord: its result
    ptrZone4,       \* generateIPv4PTRZone: its result
    ptrZone6,       \* generateIPv6PTRZone: its result
    ptrBack,        \* the zone UpdateRecords derives from ptrRec's name
    grpPc,          \* UpdateRecords on a record set: called or returned
    grpClient,      \* UpdateRecords: c
    grpDryRun,      \* UpdateRecords: dryRun
    grpRecords,     \* UpdateRecords: records
    grpByZone,      \* UpdateRecords: recordsByZone
    grpMsgs,        \* sendZoneUpdate: msg, for every zone of recordsByZone
    vdPc,           \* Config.Validate: called or returned
    vdConfig,       \* Config.Validate: c
    vdErr           \* Config.Validate: the error it returned

pipeVars ==
    <<ctxDone, runPc, valErr, runErr, machineChan, recordChan, pollPc,
      pollMachines, convPc, convRecords, updPc, updRecords, updErr, updByZone,
      updPending, updZone, updMsg, panicked, fetches, ticks, fetched,
      published, handed, updVia>>

synVars == <<synPc, synMachines, synRecords, synPTR>>

sanVars == <<sanName, sanOut>>

ptrVars == <<ptrPc, ptrIP, ptrRec, ptrZone4, ptrZone6, ptrBack>>

grpVars == <<grpPc, grpClient, grpDryRun, grpRecords, grpByZone, grpMsgs>>

vdVars == <<vdPc, vdConfig, vdErr>>

vars == <<cfg, pipeVars, synVars, sanVars, ptrVars, grpVars, vdVars>>

(***************************************************************************)
(* Configurations and rosters.                                             *)
(***************************************************************************)
ForwardZone == <<"t","s",".","l","a","n">>

IPv4Net == <<"1","0","0",".","6","4",".","0",".","0","/","1","0">>

IPv6Net == <<"f","d","7","a",":",":","/","4","8">>

PTRDisabled ==
    [Enabled |-> FALSE, IPv4Subnet |-> IPv4Net, IPv4SubnetSize |-> 16,
     IPv6Enabled |-> FALSE, IPv6Subnet |-> <<>>, IPv6SubnetSize |-> 64]

PTRv4Only ==
    [Enabled |-> TRUE, IPv4Subnet |-> IPv4Net, IPv4SubnetSize |-> 16,
     IPv6Enabled |-> FALSE, IPv6Subnet |-> <<>>, IPv6SubnetSize |-> 64]

PTRBoth ==
    [Enabled |-> TRUE, IPv4Subnet |-> IPv4Net, IPv4SubnetSize |-> 16,
     IPv6Enabled |-> TRUE, IPv6Subnet |-> IPv6Net, IPv6SubnetSize |-> 48]

Config(algorithm, ttl, ptr, dryRun) ==
    [Bind    |-> [Zone |-> ForwardZone, Algorithm |-> algorithm, TTL |-> ttl,
                  PTR |-> ptr],
     General |-> [DryRun |-> dryRun]]

\* The default TTL, 300s, and one that is not a whole number of seconds.
DefaultTTL == 300000

OddTTL == MsPerSecond + MsPerSecond \div 2

UnsupportedAlgorithms == {"hmac-sha3", "HMAC-SHA256"}

Algorithms == SupportedAlgorithms \cup {""} \cup UnsupportedAlgorithms

\* The configurations of the pipeline: every algorithm with PTR records for
\* both families, and the dry run with a supported and an unsupported
\* algorithm, with and without PTR records.
Configs ==
    {Config(alg, DefaultTTL, PTRBoth, FALSE) : alg \in Algorithms}
    \cup {Config(DefaultAlgorithm, DefaultTTL, PTRDisabled, dry) : dry \in BOOLEAN}
    \cup {Config(alg, DefaultTTL, PTRBoth, TRUE) :
              alg \in {DefaultAlgorithm, "hmac-sha3"}}

SynConfigs ==
    {Config(DefaultAlgorithm, ttl, ptr, FALSE) :
        ttl \in {DefaultTTL, OddTTL}, ptr \in {PTRDisabled, PTRv4Only, PTRBoth}}

IdleConfig == Config(DefaultAlgorithm, DefaultTTL, PTRDisabled, FALSE)

Machine(id, name, ipv4, ipv6, online) ==
    [ID |-> id, Name |-> name, IPv4Address |-> ipv4, IPv6Address |-> ipv6,
     Online |-> online]

NodeID == <<"N","1">>

NodeName == <<"W","e","b","_","1",".","t","s">>

IPv4In == <<"1","0","0",".","6","4",".","1",".","1">>

IPv4Bad == <<"1",".","2",".","3">>

IPv6In == <<"f","d","7","a",":",":","1">>

SynMachines ==
    {Machine(NodeID, name, ipv4, ipv6, online) :
        name \in {<<>>, NodeName}, ipv4 \in {<<>>, IPv4In, IPv4Bad},
        ipv6 \in {<<>>, IPv6In}, online \in BOOLEAN}

MaxMachines == 2

SynRosters == UNION {[1..n -> SynMachines] : n \in 0..MaxMachines}

\* What GetOnlineMachines can return: online machines only.
Rosters ==
    { <<>>,
      <<Machine(NodeID, NodeName, IPv4In, IPv6In, TRUE)>>,
      <<Machine(NodeID, <<>>, IPv4In, <<>>, TRUE)>> }

(***************************************************************************)
(* What the pipeline computes from a roster, worked out once for every     *)
(* configuration and every roster it can meet: the converter's allRecords, *)
(* the grouping and the key of UpdateRecords, the message of               *)
(* sendZoneUpdate.                                                         *)
(***************************************************************************)
Conversions ==
    {[cfg |-> c, machines |-> m,
      allRecords |-> machinesToRecords(NewApp(c), m)
                     \o createPTRRecords(NewApp(c), m)] :
        c \in Configs, m \in Rosters}

allRecordsOf(c, machines) ==
    (CHOOSE r \in Conversions : r.cfg = c /\ r.machines = machines).allRecords

Groupings ==
    {[cfg |-> r.cfg, records |-> r.allRecords,
      key |-> createTSIGKey(NewClient(r.cfg)),
      byZone |-> recordsByZone(NewClient(r.cfg), r.allRecords)] :
        r \in Conversions}

groupingOf(c, records) ==
    CHOOSE g \in Groupings : g.cfg = c /\ g.records = records

Messages ==
    UNION {{[cfg |-> g.cfg, zone |-> zone, records |-> g.byZone[zone],
             msg |-> updateMsg(zone, g.byZone[zone], g.key)] :
               zone \in DOMAIN g.byZone} : g \in Groupings}

msgOf(c, zone, records) ==
    (CHOOSE m \in Messages :
        m.cfg = c /\ m.zone = zone /\ m.records = records).msg

(***************************************************************************)
(* pkg/config: Config.Validate, on the fields it reads.                    *)
(***************************************************************************)
ValidatePTR(ptr) ==
    IF ~ptr.Enabled THEN "nil"
    ELSE IF ptr.IPv4Zone = <<>>
    THEN "IPv4 PTR zone must be provided when PTR records are enabled"
    ELSE IF ptr.IPv4Subnet # <<>> /\ ~ParseCIDR(ptr.IPv4Subnet).ok
    THEN "invalid IPv4 subnet format"
    ELSE IF ptr.IPv4SubnetSize \notin {8, 16, 24}
    THEN "IPv4 subnet size must be 8, 16, or 24"
    ELSE IF ~ptr.IPv6Enabled THEN "nil"
    ELSE IF ptr.IPv6Zone = <<>>
    THEN "IPv6 PTR zone must be provided when IPv6 PTR records are enabled"
    ELSE IF ptr.IPv6Subnet = <<>>
    THEN "IPv6 subnet must be provided when IPv6 PTR records are enabled"
    ELSE IF ~ParseCIDR(ptr.IPv6Subnet).ok
    THEN "invalid IPv6 subnet format"
    ELSE IF ptr.IPv6SubnetSize \notin {32, 48, 64}
    THEN "IPv6 subnet size must be 32, 48, or 64"
    ELSE "nil"

Validate(c) ==
    IF c.Tailscale.ClientID = <<>> /\ c.Tailscale.APIKey = <<>>
    THEN "either tailscale client_id or api_key must be provided"
    ELSE IF c.Tailscale.ClientSecret = <<>> /\ c.Tailscale.APIKey = <<>>
    THEN "either tailscale client_secret or api_key must be provided"
    ELSE IF c.Tailscale.Tailnet = <<>>
    THEN "tailscale tailnet must be provided"
    ELSE IF c.Bind.Server = <<>> THEN "bind server must be provided"
    ELSE IF c.Bind.Zone = <<>> THEN "bind zone must be provided"
    ELSE IF c.Bind.KeyName = <<>> THEN "bind key_name must be provided"
    ELSE IF c.Bind.KeySecret = <<>> THEN "bind key_secret must be provided"
    ELSE ValidatePTR(c.Bind.PTR)

\* A text field that is set.
SetText == <<"x">>

Texts == {<<>>, SetText}

TailscaleConfig(clientID, clientSecret, apiKey, tailnet) ==
    [ClientID |-> clientID, ClientSecret |-> clientSecret, APIKey |-> apiKey,
     Tailnet |-> tailnet]

PTRConfig(enabled, zone4, subnet4, size4, enabled6, zone6, subnet6, size6) ==
    [Enabled |-> enabled, IPv4Zone |-> zone4, IPv4Subnet |-> subnet4,
     IPv4SubnetSize |-> size4, IPv6Enabled |-> enabled6, IPv6Zone |-> zone6,
     IPv6Subnet |-> subnet6, IPv6SubnetSize |-> size6]

BindConfig(server, zone, keyName, keySecret, ptr) ==
    [Server |-> server, Zone |-> zone, KeyName |-> keyName,
     KeySecret |-> keySecret, PTR |-> ptr]

FileConfig(tailscale, bind) == [Tailscale |-> tailscale, Bind |-> bind]

\* What setDefaults gives the PTR fields.
PTRDefaults == PTRConfig(FALSE, <<>>, IPv4Net, 16, FALSE, <<>>, <<>>, 64)

(***************************************************************************)
(* The state every specification starts the parts it leaves alone in.      *)
(***************************************************************************)
NotReturned == <<"?">>

OpenChan == [buf |-> <<>>, closed |-> FALSE]

PipeInitial ==
    /\ ctxDone = FALSE
    /\ runPc = "validate"
    /\ valErr = "pending"
    /\ runErr = "running"
    /\ machineChan = OpenChan
    /\ recordChan = OpenChan
    /\ pollPc = "idle"
    /\ pollMachines = <<>>
    /\ convPc = "idle"
    /\ convRecords = <<>>
    /\ updPc = "idle"
    /\ updRecords = <<>>
    /\ updErr = "none"
    /\ updByZone = <<>>
    /\ updPending = {}
    /\ updZone = <<>>
    /\ updMsg = NoMsg
    /\ panicked = FALSE
    /\ fetches = 0
    /\ ticks = 0
    /\ fetched = 0
    /\ published = <<>>
    /\ handed = <<>>
    /\ updVia = "none"

SynInitial ==
    /\ synPc = "call"
    /\ synMachines = <<>>
    /\ synRecords = <<>>
    /\ synPTR = <<>>

SanInitial ==
    /\ sanName = <<>>
    /\ sanOut = NotReturned

PtrInitial ==
    /\ ptrPc = "call"
    /\ ptrIP = <<>>
    /\ ptrRec = NilRecord
    /\ ptrZone4 = NoZone
    /\ ptrZone6 = NoZone
    /\ ptrBack = <<>>

GrpInitial ==
    /\ grpPc = "call"
    /\ grpClient = NewClient(IdleConfig)
    /\ grpDryRun = FALSE
    /\ grpRecords = <<>>
    /\ grpByZone = <<>>
    /\ grpMsgs = <<>>

VdInitial ==
    /\ vdPc = "call"
    /\ vdConfig = FileConfig(TailscaleConfig(<<>>, <<>>, SetText, SetText),
                             BindConfig(SetText, ForwardZone, SetText, SetText,
                                        PTRDefaults))
    /\ vdErr = "pending"

(***************************************************************************)
(* sanitizeDNSName on its own: every name of at most MaxNameLen characters *)
(* over an alphabet with a lower-case letter, an upper-case letter, a      *)
(* digit, '-', '.' and a character that is none of these.                  *)
(***************************************************************************)
MaxNameLen == 5

NameChars == {"a", "B", "7", "-", ".", "_"}

Names == UNION {[1..n -> NameChars] : n \in 0..MaxNameLen}

SanInit ==
    /\ VdInitial
    /\ cfg = IdleConfig
    /\ PipeInitial
    /\ SynInitial
    /\ PtrInitial
    /\ GrpInitial
    /\ sanName \in Names
    /\ sanOut = NotReturned

SanitizeCall ==
    /\ sanOut = NotReturned
    /\ sanOut' = sanitizeDNSName(sanName)
    /\ UNCHANGED <<cfg, pipeVars, synVars, sanName, ptrVars, grpVars, vdVars>>

SanNext == SanitizeCall

SanSpec == SanInit /\ [][SanNext]_vars

(***************************************************************************)
(* The synthesizer on its own: the body of the converter's receive branch  *)
(* applied to every roster of at most MaxMachines machines.                *)
(***************************************************************************)
SynInit ==
    /\ VdInitial
    /\ cfg \in SynConfigs
    /\ PipeInitial
    /\ SanInitial
    /\ PtrInitial
    /\ GrpInitial
    /\ synPc = "call"
    /\ synMachines \in SynRosters
    /\ synRecords = <<>>
    /\ synPTR = <<>>

Synthesize ==
    /\ synPc = "call"
    /\ synPc' = "returned"
    /\ synRecords' = machinesToRecords(NewApp(cfg), synMachines)
    /\ synPTR' = createPTRRecords(NewApp(cfg), synMachines)
    /\ UNCHANGED <<cfg, pipeVars, sanVars, synMachines, ptrVars, grpVars,
                   vdVars>>

SynNext == Synthesize

SynthSpec == SynInit /\ [][SynNext]_vars

(***************************************************************************)
(* The reverse-name functions on their own: CreatePTRRecord, the two zone  *)
(* generators and the zone UpdateRecords derives back from the record's    *)
(* owner name, for one address text under every PTR configuration, and the *)
(* synthesizer on the roster of the endpoint that address belongs to and a *)
(* neighbour.                                                              *)
(***************************************************************************)
\* 100.64.0.0/10 holds a.b.c.d exactly when a = 100 and 64 <= b <= 127.
Octets == {0, 64, 100, 255}

DottedQuad(a, b, c, d) ==
    ToDec(a) \o Dot \o ToDec(b) \o Dot \o ToDec(c) \o Dot \o ToDec(d)

IPv4Texts == {DottedQuad(a, b, c, d) : a \in Octets, b \in Octets,
                                       c \in Octets, d \in Octets}

\* An IPv4 address in its IPv4-in-IPv6 text.
IPv4Mapped == <<":",":","f","f","f","f",":","1","0","0",".","6","4",".","1",".","1">>

IPv6Upper == <<"F","D","7","A",":",":","A">>

IPv6Long == <<"f","d","7","a",":","0",":","0",":","1","2",":","3","4","5","6",":","7","8","9","a",":","b","c","d","e",":","f","0","0","1">>

IPv6Near == <<"f","d","7","a",":","0",":","1",":",":","1">>

IPv6Far == <<"2","0","0","1",":","d","b","8",":",":","f","f">>

\* fd7a::/48 holds the first three, not the last two.
IPv6Texts == {IPv6In, IPv6Upper, IPv6Long, IPv6Near, IPv6Far}

BadTexts == {IPv4Bad, <<"0","1",".","2",".","3",".","4">>,
             <<"1",":",":","2",":",":","3">>, <<"x">>}

AddressTexts == IPv4Texts \cup {IPv4Mapped} \cup IPv6Texts \cup BadTexts

\* The boundary sizes of the two families; the legal ones are 8, 16, 24 and
\* 32, 48, 64.
SizePairs == {<<8, 32>>, <<16, 48>>, <<24, 64>>, <<12, 56>>, <<32, 8>>, <<0, 0>>}

IPv4NetTooLong == <<"1","0","0",".","6","4",".","0",".","0","/","3","3">>

IPv6NoLength == <<"f","d","7","a",":",":">>

IPv4Any == <<"0",".","0",".","0",".","0","/","0">>

IPv6Any == <<":",":","/","0">>

\* The validation subnets: the defaults, none, malformed ones, and the ones
\* that hold every address.
SubnetPairs == {<<IPv4Net, IPv6Net>>, <<<<>>, <<>>>>,
                <<IPv4NetTooLong, IPv6NoLength>>, <<IPv4Any, IPv6Any>>}

PTRSetting(enabled, ipv6Enabled, subnets, sizes) ==
    [Enabled |-> enabled, IPv4Subnet |-> subnets[1],
     IPv4SubnetSize |-> sizes[1], IPv6Enabled |-> ipv6Enabled,
     IPv6Subnet |-> subnets[2], IPv6SubnetSize |-> sizes[2]]

PTRSettings ==
    {PTRSetting(enabled, ipv6Enabled, subnets, sizes) :
        enabled \in BOOLEAN, ipv6Enabled \in BOOLEAN,
        subnets \in SubnetPairs, sizes \in SizePairs}

PTRConfigs ==
    {Config(DefaultAlgorithm, DefaultTTL, ptr, FALSE) : ptr \in PTRSettings}

Neighbour == Machine(<<"N","2">>, <<"d","b">>, IPv4In, IPv6In, TRUE)

\* The machine GetMachines makes of a device with one address: the address
\* is its IPv4 address when it parses and To4 is not nil, its IPv6 address
\* when it parses and To4 is nil.
Endpoint(ip, addr) ==
    Machine(NodeID, NodeName,
            IF ip # NoIP /\ To4(ip) # NoIP THEN addr ELSE <<>>,
            IF ip # NoIP /\ To4(ip) = NoIP THEN addr ELSE <<>>,
            TRUE)

EndpointRoster(addr) == <<Endpoint(ParseIP(addr), addr), Neighbour>>

Hostname == sanitizeDNSName(NodeName) \o Dot \o ForwardZone

BackZone(c, created) ==
    IF created.rec = <<>> THEN <<>> ELSE zoneOf(c, created.rec[1])

PtrInit ==
    /\ VdInitial
    /\ cfg \in PTRConfigs
    /\ PipeInitial
    /\ SanInitial
    /\ GrpInitial
    /\ ptrPc = "call"
    /\ ptrIP \in AddressTexts
    /\ ptrRec = NilRecord
    /\ ptrZone4 = NoZone
    /\ ptrZone6 = NoZone
    /\ ptrBack = <<>>
    /\ synPc = "call"
    /\ synMachines = EndpointRoster(ptrIP)
    /\ synRecords = <<>>
    /\ synPTR = <<>>

ReverseCall ==
    /\ ptrPc = "call"
    /\ ptrPc' = "returned"
    /\ ptrRec' = CreatePTRRecord(NewClient(cfg), ptrIP, Hostname)
    /\ ptrZone4' = generateIPv4PTRZone(ptrIP, cfg.Bind.PTR.IPv4SubnetSize)
    /\ ptrZone6' = generateIPv6PTRZone(ptrIP, cfg.Bind.PTR.IPv6SubnetSize)
    /\ ptrBack' = BackZone(NewClient(cfg), ptrRec')
    /\ synPc' = "returned"
    /\ synRecords' = machinesToRecords(NewApp(cfg), synMachines)
    /\ synPTR' = createPTRRecords(NewApp(cfg), synMachines)
    /\ UNCHANGED <<cfg, pipeVars, sanVars, grpVars, ptrIP, synMachines,
                   vdVars>>

PtrNext == ReverseCall

PTRSpec == PtrInit /\ [][PtrNext]_vars

(***************************************************************************)
(* UpdateRecords on its own: the grouping of a record set of at most       *)
(* MaxRecords records by zone, and the message sendZoneUpdate builds for   *)
(* every zone of the grouping.  The records are the ones the synthesizer   *)
(* makes and PTR records with other owner names; the clients have every    *)
(* combination of the two PTR switches at legal and illegal boundary       *)
(* sizes, no PTR configuration at all, and an unsupported algorithm.       *)
(***************************************************************************)
Seconds300 == DefaultTTL \div MsPerSecond

WebName == <<"w","e","b","-","1">>

WebHost == <<"w","e","b","-","1",".","t","s",".","l","a","n">>

IPv4Other == <<"1","0","0",".","6","4",".","0",".","2","5","5">>

PTR4Name == <<"1",".","1",".","6","4",".","1","0","0",".","i","n","-","a","d","d","r",".","a","r","p","a",".">>

PTR4OtherName == <<"9",".","9",".","6","5",".","1","0","0",".","i","n","-","a","d","d","r",".","a","r","p","a",".">>

PTR6Name ==
    <<"1",".","0",".","0",".","0",".","0",".","0",".","0",".","0",".","0",
    ".","0",".","0",".","0",".","0",".","0",".","0",".","0",".","0",
    ".","0",".","0",".","0",".","0",".","0",".","0",".","0",".","0",
    ".","0",".","0",".","0",".","a",".","7",".","d",".","f",".","i",
    "p","6",".","a","r","p","a",".">>

ThreeLabelName == <<"1",".","6","4",".","1","0","0",".","i","n","-","a","d","d","r",".","a","r","p","a",".">>

FiveLabelName == <<"1",".","1",".","1",".","6","4",".","1","0","0",".","i","n","-","a","d","d","r",".","a","r","p","a",".">>

ShortIp6Name == <<"1",".","0",".","0",".","0",".","i","p","6",".","a","r","p","a",".">>

InsideName == <<"x",".","i","n","-","a","d","d","r",".","a","r","p","a",".","y",".">>

UndottedName == <<"1",".","1",".","6","4",".","1","0","0",".","i","n","-","a","d","d","r",".","a","r","p","a">>

PTROwnerNames ==
    {PTR4Name, PTR4OtherName, PTR6Name, ThreeLabelName, FiveLabelName,
     ShortIp6Name, InsideName, UndottedName, WebHost \o Dot}

RecordPool ==
    {DNSRecord(WebName, IPv4In, Seconds300, "A"),
     DNSRecord(WebName, IPv4Other, Seconds300, "A"),
     DNSRecord(WebName, IPv6In, Seconds300, "AAAA")}
    \cup {DNSRecord(name, WebHost, Seconds300, "PTR") : name \in PTROwnerNames}

MaxRecords == 2

RecordSets == UNION {[1..n -> RecordPool] : n \in 0..MaxRecords}

GroupSizes == {<<8, 32>>, <<16, 48>>, <<24, 64>>, <<12, 56>>}

\* A client made without a PTR configuration: ptrConfig is nil.
WithoutPTR(c) == [c EXCEPT !.ptrConfig.Nil = TRUE]

GroupClients ==
    {NewClient(Config(DefaultAlgorithm, DefaultTTL,
                      PTRSetting(enabled, ipv6Enabled, <<IPv4Net, IPv6Net>>, sizes),
                      FALSE)) :
        enabled \in BOOLEAN, ipv6Enabled \in BOOLEAN, sizes \in GroupSizes}
    \cup {WithoutPTR(NewClient(IdleConfig)),
          NewClient(Config("hmac-sha3", DefaultTTL, PTRBoth, FALSE))}

GrpInit ==
    /\ VdInitial
    /\ cfg = IdleConfig
    /\ PipeInitial
    /\ SynInitial
    /\ SanInitial
    /\ PtrInitial
    /\ grpPc = "call"
    /\ grpClient \in GroupClients
    /\ grpDryRun \in BOOLEAN
    /\ grpRecords \in RecordSets
    /\ grpByZone = <<>>
    /\ grpMsgs = <<>>

\* The messages of the zones of a grouping, none when the key cannot be
\* made.
zoneMsgs(byZone, key) ==
    IF ~key.ok THEN <<>>
    ELSE [zone \in DOMAIN byZone |-> updateMsg(zone, byZone[zone], key)]

GroupCall ==
    /\ grpPc = "call"
    /\ grpPc' = "returned"
    /\ IF grpDryRun \/ Len(grpRecords) = 0
       THEN grpByZone' = <<>> /\ grpMsgs' = <<>>
       ELSE /\ grpByZone' = recordsByZone(grpClient, grpRecords)
            /\ grpMsgs' = zoneMsgs(grpByZone', createTSIGKey(grpClient))
    /\ UNCHANGED <<cfg, pipeVars, synVars, sanVars, ptrVars, grpClient,
                   grpDryRun, grpRecords, vdVars>>

GrpNext == GroupCall

GroupSpec == GrpInit /\ [][GrpNext]_vars

(***************************************************************************)
(* Config.Validate on its own, for every configuration of FileConfigs.     *)
(***************************************************************************)
\* The configurations Validate is given: a field is set or empty, a subnet
\* is a CIDR, empty or malformed, a size is legal or not.
TailscaleConfigs ==
    {TailscaleConfig(id, secret, key, tailnet) :
        id \in Texts, secret \in Texts, key \in Texts, tailnet \in Texts}

PTRFileConfigs ==
    {PTRConfig(enabled, zone4, subnet4, size4, enabled6, zone6, subnet6, size6) :
        enabled \in BOOLEAN, zone4 \in Texts,
        subnet4 \in {<<>>, IPv4Net, IPv4NetTooLong}, size4 \in {8, 16, 24, 32},
        enabled6 \in BOOLEAN, zone6 \in Texts,
        subnet6 \in {<<>>, IPv6Net, IPv6NoLength}, size6 \in {16, 32, 48, 64}}

BindConfigs ==
    {BindConfig(server, zone, keyName, keySecret, PTRDefaults) :
        server \in Texts, zone \in Texts, keyName \in Texts,
        keySecret \in Texts}

FileConfigs ==
    {FileConfig(tailscale, bind) :
        tailscale \in TailscaleConfigs,
        bind \in {BindConfig(SetText, ForwardZone, SetText, SetText, PTRDefaults)}}
    \cup {FileConfig(TailscaleConfig(<<>>, <<>>, SetText, SetText), bind) :
              bind \in BindConfigs}
    \cup {FileConfig(TailscaleConfig(<<>>, <<>>, SetText, SetText),
                     BindConfig(SetText, ForwardZone, SetText, SetText, ptr)) :
              ptr \in PTRFileConfigs}

VdInit ==
    /\ cfg = IdleConfig
    /\ PipeInitial
    /\ SynInitial
    /\ SanInitial
    /\ PtrInitial
    /\ GrpInitial
    /\ vdPc = "call"
    /\ vdConfig \in FileConfigs
    /\ vdErr = "pending"

ValidateCall ==
    /\ vdPc = "call"
    /\ vdPc' = "returned"
    /\ vdErr' = Validate(vdConfig)
    /\ UNCHANGED <<cfg, pipeVars, synVars, sanVars, ptrVars, grpVars, vdConfig>>

VdNext == ValidateCall

ValidateSpec == VdInit /\ [][VdNext]_vars

(***************************************************************************)
(* The pipeline: App.Run, StartPolling, convertMachinesToRecords and       *)
(* StartUpdating, one action per step between two points where another     *)
(* goroutine or the cancellation can be seen to act.  A ticker's tick is   *)
(* taken to arrive when the select that waits for it takes it.             *)
(***************************************************************************)
ChanCap == 10

MaxFetches == 2

\* A goroutine that panics ends the process: nothing runs afterwards.
Alive == ~panicked

others == <<cfg, synVars, sanVars, ptrVars, grpVars, vdVars>>

runVars == <<runPc, valErr, runErr>>

pollVars == <<pollPc, pollMachines, fetches, ticks, fetched, published>>

convVars == <<convPc, convRecords>>

updVars == <<updPc, updRecords, updErr, updByZone, updPending, updZone,
             updMsg,
            handed, updVia>>

chanVars == <<machineChan, recordChan>>

\* A receive can proceed: a value is buffered, or the channel is closed.
RecvReady(ch) == Len(ch.buf) > 0 \/ ch.closed

\* What a receive yields: the oldest value, or nil from a closed and
\* drained channel.
RecvValue(ch) == IF Len(ch.buf) > 0 THEN Head(ch.buf) ELSE <<>>

AfterRecv(ch) == IF Len(ch.buf) > 0 THEN [ch EXCEPT !.buf = Tail(@)] ELSE ch

\* A send that does not wait for room.
SendReadyWhenFull(ch) == ~ch.closed

\* A send can proceed without panicking: the channel is open and has room.
SendReady(ch) == ~ch.closed /\ Len(ch.buf) < ChanCap

\* A channel that hands out the newest value first.
AfterSendInFront(ch, v) == [ch EXCEPT !.buf = <<v>> \o @]

AfterSend(ch, v) == [ch EXCEPT !.buf = Append(@, v)]

\* What an exchange with the DNS server comes to: a success response, a
\* transport error, a response with a non-success Rcode.
Outcomes == {"nil", "transport", "rcode"}

\* cmd/run.go: SIGINT or SIGTERM cancels the context.
Cancel ==
    /\ Alive
    /\ ~ctxDone
    /\ ctxDone' = TRUE
    /\ UNCHANGED <<others, runVars, chanVars, pollVars, convVars, updVars,
                   panicked>>

\* A Run that starts the goroutines whatever ValidateConnection returned.
RunValidateUnchecked ==
    /\ Alive
    /\ runPc = "validate"
    /\ \E err \in Outcomes : valErr' = err
    /\ runPc' = "go_converter"
    /\ UNCHANGED <<others, ctxDone, runErr, chanVars, pollVars, convVars,
                   updVars, panicked>>

\* App.Run: ValidateConnection; a transport error or a non-success Rcode
\* makes Run return the error.
RunValidate ==
    /\ Alive
    /\ runPc = "validate"
    /\ \E err \in Outcomes :
          /\ valErr' = err
          /\ IF err = "nil"
             THEN runPc' = "go_converter" /\ runErr' = runErr
             ELSE runPc' = "returned" /\ runErr' = "error"
    /\ UNCHANGED <<others, ctxDone, chanVars, pollVars, convVars, updVars,
                   panicked>>

RunGoConverter ==
    /\ Alive
    /\ runPc = "go_converter"
    /\ runPc' = "go_polling"
    /\ convPc' = "select"
    /\ UNCHANGED <<others, ctxDone, valErr, runErr, chanVars, pollVars,
                   convRecords, updVars, panicked>>

RunGoPolling ==
    /\ Alive
    /\ runPc = "go_polling"
    /\ runPc' = "go_updating"
    /\ pollPc' = "start"
    /\ UNCHANGED <<others, ctxDone, valErr, runErr, chanVars, pollMachines,
                   fetches, convVars, updVars, panicked, ticks, fetched,
                   published>>

RunGoUpdating ==
    /\ Alive
    /\ runPc = "go_updating"
    /\ runPc' = "wait_ctx"
    /\ updPc' = "first"
    /\ UNCHANGED <<others, ctxDone, valErr, runErr, chanVars, pollVars,
                   convVars, updRecords, updErr, updByZone, updPending,
                   updZone, updMsg, panicked, handed, updVia>>

\* <-ctx.Done()
RunCtxDone ==
    /\ Alive
    /\ runPc = "wait_ctx"
    /\ ctxDone
    /\ runPc' = "close_machine"
    /\ UNCHANGED <<others, ctxDone, valErr, runErr, chanVars, pollVars,
                   convVars, updVars, panicked>>

RunCloseMachineChan ==
    /\ Alive
    /\ runPc = "close_machine"
    /\ machineChan' = [machineChan EXCEPT !.closed = TRUE]
    /\ runPc' = "close_record"
    /\ UNCHANGED <<others, ctxDone, valErr, runErr, recordChan, pollVars,
                   convVars, updVars, panicked>>

RunCloseRecordChan ==
    /\ Alive
    /\ runPc = "close_record"
    /\ recordChan' = [recordChan EXCEPT !.closed = TRUE]
    /\ runPc' = "wg_wait"
    /\ UNCHANGED <<others, ctxDone, valErr, runErr, machineChan, pollVars,
                   convVars, updVars, panicked>>

\* a.wg.Wait() returns when the three goroutines have returned.
RunReturn ==
    /\ Alive
    /\ runPc = "wg_wait"
    /\ pollPc = "done" /\ convPc = "done" /\ updPc = "done"
    /\ runPc' = "returned"
    /\ runErr' = "nil"
    /\ UNCHANGED <<others, ctxDone, valErr, chanVars, pollVars, convVars,
                   updVars, panicked>>

(***************************************************************************)
(* StartPolling.                                                           *)
(***************************************************************************)
\* The initial GetOnlineMachines call.
PollInitialFetch ==
    /\ Alive
    /\ pollPc = "start"
    /\ pollPc' = "fetching"
    /\ fetches' = fetches + 1
    /\ UNCHANGED <<others, ctxDone, runVars, chanVars, pollMachines, convVars,
                   updVars, panicked, ticks, fetched,
                   published>>

\* A StartPolling that returns when GetOnlineMachines fails.
PollFetchFailsReturns ==
    /\ Alive
    /\ pollPc = "fetching"
    /\ pollPc' = "done"
    /\ UNCHANGED <<others, ctxDone, runVars, chanVars, pollMachines, fetches,
                   convVars, updVars, panicked, ticks, fetched, published>>

\* GetOnlineMachines returns an error: on to the loop's select.
PollFetchFails ==
    /\ Alive
    /\ pollPc = "fetching"
    /\ pollPc' = "select"
    /\ UNCHANGED <<others, ctxDone, runVars, chanVars, pollMachines, fetches,
                   convVars, updVars, panicked, ticks, fetched,
                   published>>

\* A StartPolling that goes back to its select with the roster unsent.
PollFetchReturnsUnsent ==
    /\ Alive
    /\ pollPc = "fetching"
    /\ pollPc' = "select"
    /\ fetched' = fetched + 1
    /\ UNCHANGED <<others, ctxDone, runVars, chanVars, pollMachines, fetches,
                   convVars, updVars, panicked, ticks, published>>

\* GetOnlineMachines returns a roster: on to the select that sends it.
PollFetchReturns ==
    /\ Alive
    /\ pollPc = "fetching"
    /\ \E machines \in Rosters : pollMachines' = machines
    /\ pollPc' = "sending"
    /\ fetched' = fetched + 1
    /\ UNCHANGED <<others, ctxDone, runVars, chanVars, fetches, convVars,
                   updVars, panicked, ticks, published>>

\* case machineChan <- machines
PollSend ==
    /\ Alive
    /\ pollPc = "sending"
    /\ SendReady(machineChan)
    /\ machineChan' = AfterSend(machineChan, pollMachines)
    /\ pollPc' = "select"
    /\ pollMachines' = <<>>
    /\ published' = Append(published, pollMachines)
    /\ UNCHANGED <<others, ctxDone, runVars, recordChan, fetches, convVars,
                   updVars, panicked, ticks, fetched>>

\* case machineChan <- machines, the channel being closed: the send panics.
PollSendPanics ==
    /\ Alive
    /\ pollPc = "sending"
    /\ machineChan.closed
    /\ panicked' = TRUE
    /\ UNCHANGED <<others, ctxDone, runVars, chanVars, pollVars, convVars,
                   updVars>>

\* case <-ctx.Done() of the sending select
PollSendCancelled ==
    /\ Alive
    /\ pollPc = "sending"
    /\ ctxDone
    /\ pollPc' = "done"
    /\ pollMachines' = <<>>
    /\ UNCHANGED <<others, ctxDone, runVars, chanVars, fetches, convVars,
                   updVars, panicked, ticks, fetched,
                   published>>

\* case <-ticker.C: the next GetOnlineMachines call.
PollTick ==
    /\ Alive
    /\ pollPc = "select"
    /\ fetches < MaxFetches
    /\ pollPc' = "fetching"
    /\ fetches' = fetches + 1
    /\ ticks' = ticks + 1
    /\ UNCHANGED <<others, ctxDone, runVars, chanVars, pollMachines, convVars,
                   updVars, panicked, fetched, published>>

\* case <-ctx.Done() of the loop's select
PollCancelled ==
    /\ Alive
    /\ pollPc = "select"
    /\ ctxDone
    /\ pollPc' = "done"
    /\ UNCHANGED <<others, ctxDone, runVars, chanVars, pollMachines, fetches,
                   convVars, updVars, panicked, ticks, fetched,
                   published>>

(***************************************************************************)
(* convertMachinesToRecords.                                               *)
(***************************************************************************)
\* A receive branch that sends the records of the roster even when there
\* are none.
ConvReceiveSendsAny ==
    /\ Alive
    /\ convPc = "select"
    /\ Len(machineChan.buf) > 0
    /\ machineChan' = AfterRecv(machineChan)
    /\ convPc' = "sending"
    /\ convRecords' = allRecordsOf(cfg, Head(machineChan.buf))
    /\ UNCHANGED <<others, ctxDone, runVars, recordChan, pollVars, updVars,
                   panicked>>

\* case machines, ok := <-a.machineChan with ok: the records of the roster,
\* kept for sending when there are any.
ConvReceive ==
    /\ Alive
    /\ convPc = "select"
    /\ Len(machineChan.buf) > 0
    /\ machineChan' = AfterRecv(machineChan)
    /\ IF Len(allRecordsOf(cfg, Head(machineChan.buf))) > 0
       THEN /\ convPc' = "sending"
            /\ convRecords' = allRecordsOf(cfg, Head(machineChan.buf))
       ELSE /\ convPc' = "select"
            /\ convRecords' = <<>>
    /\ UNCHANGED <<others, ctxDone, runVars, recordChan, pollVars, updVars,
                   panicked>>

\* case machines, ok := <-a.machineChan with !ok
ConvChannelClosed ==
    /\ Alive
    /\ convPc = "select"
    /\ Len(machineChan.buf) = 0
    /\ machineChan.closed
    /\ convPc' = "done"
    /\ UNCHANGED <<others, ctxDone, runVars, chanVars, pollVars, convRecords,
                   updVars, panicked>>

ConvCancelled ==
    /\ Alive
    /\ convPc = "select"
    /\ ctxDone
    /\ convPc' = "done"
    /\ UNCHANGED <<others, ctxDone, runVars, chanVars, pollVars, convRecords,
                   updVars, panicked>>

\* case a.recordChan <- allRecords
ConvSend ==
    /\ Alive
    /\ convPc = "sending"
    /\ SendReady(recordChan)
    /\ recordChan' = AfterSend(recordChan, convRecords)
    /\ convPc' = "select"
    /\ convRecords' = <<>>
    /\ UNCHANGED <<others, ctxDone, runVars, machineChan, pollVars, updVars,
                   panicked>>

\* case a.recordChan <- allRecords, the channel being closed: the send
\* panics.
ConvSendPanics ==
    /\ Alive
    /\ convPc = "sending"
    /\ recordChan.closed
    /\ panicked' = TRUE
    /\ UNCHANGED <<others, ctxDone, runVars, chanVars, pollVars, convVars,
                   updVars>>

ConvSendCancelled ==
    /\ Alive
    /\ convPc = "sending"
    /\ ctxDone
    /\ convPc' = "done"
    /\ convRecords' = <<>>
    /\ UNCHANGED <<others, ctxDone, runVars, chanVars, pollVars, updVars,
                   panicked>>

(***************************************************************************)
(* StartUpdating and UpdateRecords.                                        *)
(***************************************************************************)
\* UpdateRecords returns err to StartUpdating, which logs an error and
\* goes on with its loop.
UpdateReturns(err) ==
    /\ updErr' = err
    /\ updPc' = "loop"
    /\ updByZone' = <<>>
    /\ updPending' = {}
    /\ updZone' = <<>>
    /\ updMsg' = NoMsg

\* UpdateRecords past its dry-run and empty-set returns: the records are
\* grouped, a refused algorithm returns the error, and the range loop over
\* the zones is entered.
UpdateLive(records) ==
    IF ~groupingOf(cfg, records).key.ok THEN UpdateReturns("tsig")
    ELSE IF DOMAIN groupingOf(cfg, records).byZone = {} THEN UpdateReturns("nil")
    ELSE /\ updPc' = "range"
         /\ updErr' = "pending"
         /\ updByZone' = groupingOf(cfg, records).byZone
         /\ updPending' = DOMAIN groupingOf(cfg, records).byZone
         /\ UNCHANGED <<updZone, updMsg>>

\* The record sets UpdateRecords was called with, records included; the
\* nil a closed and drained channel yields is no record set.
Handed(records) ==
    IF Len(records) = 0 THEN handed ELSE Append(handed, records)

\* An UpdateRecords that does not look at dryRun.
UpdateRecordsNoDryRun(records) ==
    /\ updRecords' = records
    /\ handed' = Handed(records)
    /\ IF Len(records) = 0 THEN UpdateReturns("nil")
       ELSE UpdateLive(records)

\* UpdateRecords(ctx, records, dryRun) up to its first sendZoneUpdate.
UpdateRecords(records) ==
    /\ updRecords' = records
    /\ handed' = Handed(records)
    /\ IF cfg.General.DryRun THEN UpdateReturns("nil")
       ELSE IF Len(records) = 0 THEN UpdateReturns("nil")
       ELSE UpdateLive(records)

\* The first select: case records := <-recordChan
UpdFirstReceive ==
    /\ Alive
    /\ updPc = "first"
    /\ RecvReady(recordChan)
    /\ recordChan' = AfterRecv(recordChan)
    /\ UpdateRecords(RecvValue(recordChan))
    /\ updVia' = IF updPc' = "loop" THEN "none" ELSE "first"
    /\ UNCHANGED <<others, ctxDone, runVars, machineChan, pollVars, convVars,
                   panicked>>

\* The first select: case <-ctx.Done()
UpdFirstCancelled ==
    /\ Alive
    /\ updPc = "first"
    /\ ctxDone
    /\ updPc' = "done"
    /\ UNCHANGED <<others, ctxDone, runVars, chanVars, pollVars, convVars,
                   updRecords, updErr, updByZone, updPending, updZone, updMsg,
                   panicked, handed, updVia>>

\* The loop's select: case records := <-recordChan
UpdLoopReceive ==
    /\ Alive
    /\ updPc = "loop"
    /\ RecvReady(recordChan)
    /\ recordChan' = AfterRecv(recordChan)
    /\ UpdateRecords(RecvValue(recordChan))
    /\ updVia' = IF updPc' = "loop" THEN "none" ELSE "receive"
    /\ UNCHANGED <<others, ctxDone, runVars, machineChan, pollVars, convVars,
                   panicked>>

\* The loop's select: case <-ticker.C, then a receive that does not block;
\* with nothing to receive the default case is taken.
UpdLoopTick ==
    /\ Alive
    /\ updPc = "loop"
    /\ IF RecvReady(recordChan)
       THEN /\ recordChan' = AfterRecv(recordChan)
            /\ UpdateRecords(RecvValue(recordChan))
            /\ updVia' = IF updPc' = "loop" THEN "none" ELSE "tick"
       ELSE UNCHANGED <<recordChan, updVars>>
    /\ UNCHANGED <<others, ctxDone, runVars, machineChan, pollVars, convVars,
                   panicked>>

\* The loop's select: case <-ctx.Done()
UpdLoopCancelled ==
    /\ Alive
    /\ updPc = "loop"
    /\ ctxDone
    /\ updPc' = "done"
    /\ UNCHANGED <<others, ctxDone, runVars, chanVars, pollVars, convVars,
                   updRecords, updErr, updByZone, updPending, updZone, updMsg,
                   panicked, handed, updVia>>

\* The range loop takes a zone of the map, in no fixed order, and
\* sendZoneUpdate builds its message and hands it to ExchangeContext.
UpdSendZone ==
    /\ Alive
    /\ updPc = "range"
    /\ \E zone \in updPending :
          /\ updZone' = zone
          /\ updPending' = updPending \ {zone}
          /\ updMsg' = msgOf(cfg, zone, updByZone[zone])
    /\ updPc' = "sending"
    /\ UNCHANGED <<others, ctxDone, runVars, chanVars, pollVars, convVars,
                   updRecords, updErr, updByZone, panicked, handed, updVia>>

\* ExchangeContext returns.  A transport error or a non-success Rcode
\* makes sendZoneUpdate, and with it UpdateRecords, return the error; after
\* a success the range loop goes on, and UpdateRecords returns nil after
\* the last zone.
UpdSendReturns ==
    /\ Alive
    /\ updPc = "sending"
    /\ \E err \in Outcomes :
          IF err # "nil" THEN UpdateReturns(err)
          ELSE IF updPending = {} THEN UpdateReturns("nil")
          ELSE /\ updPc' = "range"
               /\ UNCHANGED <<updErr, updByZone, updPending, updZone, updMsg>>
    /\ updVia' = IF updPc' = "loop" THEN "none" ELSE updVia
    /\ UNCHANGED <<others, ctxDone, runVars, chanVars, pollVars, convVars,
                   updRecords, panicked, handed>>

(***************************************************************************)
(* The whole program.                                                      *)
(***************************************************************************)
Init ==
    /\ VdInitial
    /\ cfg \in Configs
    /\ PipeInitial
    /\ SynInitial
    /\ SanInitial
    /\ PtrInitial
    /\ GrpInitial

RunStep ==
    \/ RunValidate
    \/ RunGoConverter
    \/ RunGoPolling
    \/ RunGoUpdating
    \/ RunCtxDone
    \/ RunCloseMachineChan
    \/ RunCloseRecordChan
    \/ RunReturn

PollStep ==
    \/ PollInitialFetch
    \/ PollFetchFails
    \/ PollFetchReturns
    \/ PollSend
    \/ PollSendPanics
    \/ PollSendCancelled
    \/ PollTick
    \/ PollCancelled

ConvStep ==
    \/ ConvReceive
    \/ ConvChannelClosed
    \/ ConvCancelled
    \/ ConvSend
    \/ ConvSendPanics
    \/ ConvSendCancelled

UpdStep ==
    \/ UpdFirstReceive
    \/ UpdFirstCancelled
    \/ UpdLoopReceive
    \/ UpdLoopTick
    \/ UpdLoopCancelled
    \/ UpdSendZone
    \/ UpdSendReturns

Next ==
    \/ Cancel
    \/ RunStep
    \/ PollStep
    \/ ConvStep
    \/ UpdStep

Spec == Init /\ [][Next]_vars

\* The scheduling of the Go runtime: a goroutine that can take a step
\* takes one, and a select with several ready cases takes each of them
\* sooner or later, so a cancellation case that is ready again and again
\* is taken.  Nothing obliges the signal to arrive.
FairSpec ==
    /\ Spec
    /\ WF_vars(RunStep)
    /\ WF_vars(PollStep)
    /\ WF_vars(ConvStep)
    /\ WF_vars(UpdStep)
    /\ SF_vars(PollCancelled)
    /\ SF_vars(PollSendCancelled)
    /\ SF_vars(ConvCancelled)
    /\ SF_vars(ConvSendCancelled)
    /\ SF_vars(UpdFirstCancelled)
    /\ SF_vars(UpdLoopCancelled)

(***************************************************************************)
(* The pipeline with both channels full.  GetOnlineMachines has returned   *)
(* 2 * ChanCap + 2 rosters and StartUpdating has not received yet:         *)
(* a.recordChan holds ChanCap record sets and convertMachinesToRecords     *)
(* holds the next one, a.machineChan holds ChanCap rosters and             *)
(* StartPolling holds the last one.  From there the run is followed for as *)
(* long as the cancellation is not raised, with no further tick of         *)
(* StartPolling.                                                           *)
(***************************************************************************)
JamConfig == Config(DefaultAlgorithm, DefaultTTL, PTRDisabled, FALSE)

\* The rosters fetched so far: the two rosters with records, in turn.
JamRosters ==
    [i \in 1..(2 * ChanCap + 2) |->
        IF i % 2 = 1 THEN <<Machine(NodeID, NodeName, IPv4In, IPv6In, TRUE)>>
        ELSE <<Machine(NodeID, <<>>, IPv4In, <<>>, TRUE)>>]

JamRecordSets ==
    [i \in 1..(2 * ChanCap + 2) |-> allRecordsOf(JamConfig, JamRosters[i])]

JamInit ==
    /\ VdInitial
    /\ cfg = JamConfig
    /\ SynInitial
    /\ SanInitial
    /\ PtrInitial
    /\ GrpInitial
    /\ ctxDone = FALSE
    /\ runPc = "wait_ctx"
    /\ valErr = "nil"
    /\ runErr = "running"
    /\ fetches = 2 * ChanCap + 2
    /\ ticks = 2 * ChanCap + 1
    /\ fetched = 2 * ChanCap + 2
    /\ pollPc = "sending"
    /\ pollMachines = JamRosters[2 * ChanCap + 2]
    /\ published = SubSeq(JamRosters, 1, 2 * ChanCap + 1)
    /\ machineChan =
          [buf |-> SubSeq(JamRosters, ChanCap + 2, 2 * ChanCap + 1),
           closed |-> FALSE]
    /\ convPc = "sending"
    /\ convRecords = JamRecordSets[ChanCap + 1]
    /\ recordChan =
          [buf |-> SubSeq(JamRecordSets, 1, ChanCap), closed |-> FALSE]
    /\ updPc = "first"
    /\ updRecords = <<>>
    /\ updErr = "none"
    /\ updByZone = <<>>
    /\ updPending = {}
    /\ updZone = <<>>
    /\ updMsg = NoMsg
    /\ handed = <<>>
    /\ updVia = "none"
    /\ panicked = FALSE

\* The steps of the three stages that do not need the cancellation.
DrainPollStep == PollSend

DrainConvStep ==
    \/ ConvReceive
    \/ ConvSend

DrainUpdStep ==
    \/ UpdFirstReceive
    \/ UpdLoopReceive
    \/ UpdLoopTick
    \/ UpdSendZone
    \/ UpdSendReturns

DrainNext ==
    \/ DrainPollStep
    \/ DrainConvStep
    \/ DrainUpdStep

DrainSpec == JamInit /\ [][DrainNext]_vars

\* The scheduling of the Go runtime: a goroutine that can take a step takes
\* one.
FairDrainSpec ==
    /\ DrainSpec
    /\ WF_vars(DrainPollStep)
    /\ WF_vars(DrainConvStep)
    /\ WF_vars(DrainUpdStep)

(***************************************************************************)
(* Claims about the pipeline.                                              *)
(***************************************************************************)
StagesIdle == pollPc = "idle" /\ convPc = "idle" /\ updPc = "idle"

StagesDone == pollPc = "done" /\ convPc = "done" /\ updPc = "done"

Unsupported(algorithm) == algorithm \notin SupportedAlgorithms \cup {""}

\* C1: within one UpdateRecords cycle over two or more zones a failed
\* update of one zone does not abort the cycle: when UpdateRecords returns
\* from its range loop, an update has been sent for every zone of the cycle.
C1_FailedZoneDoesNotAbort ==
    [][(updPc = "sending" /\ updPc' = "loop") => updPending = {}]_vars

\* C2: Run returns only when the three stages have returned, and once the
\* context is cancelled with the stages started, the stages all return and
\* Run returns.
C2_ShutdownCompletes ==
    /\ []((runPc = "returned" /\ runErr = "nil") => StagesDone)
    /\ ((ctxDone /\ runPc = "wait_ctx") ~> (runPc = "returned" /\ StagesDone))

\* C3: once the context is cancelled no GetOnlineMachines call is started
\* and no zone update is handed to ExchangeContext.
C3_NoNewOperationAfterCancel ==
    [][ctxDone => /\ fetches' = fetches
                  /\ (updPc' = "sending" => updPc = "sending")]_vars

\* C4: a stage has been started or a roster fetched only after
\* ValidateConnection returned nil; when it returned an error, Run has
\* returned an error and no stage was started and no roster fetched.
C4_ValidationGatesStages ==
    /\ (~StagesIdle \/ fetches > 0) => valErr = "nil"
    /\ valErr \in {"transport", "rcode"} =>
          /\ runPc = "returned" /\ runErr = "error"
          /\ StagesIdle /\ fetches = 0

C4_Witness ==
    /\ valErr = "rcode"
    /\ runPc = "returned"
    /\ runErr = "error"

\* C5: in a dry run UpdateRecords returns nil for every record set, never
\* groups records, builds no message and hands nothing to ExchangeContext.
C5_DryRunSendsNothing ==
    cfg.General.DryRun =>
        /\ updPc \notin {"range", "sending"}
        /\ updMsg = NoMsg
        /\ updByZone = <<>>
        /\ updErr \in {"none", "nil"}

C5_Witness ==
    /\ cfg.General.DryRun
    /\ Unsupported(cfg.Bind.Algorithm)
    /\ Len(updRecords) > 1
    /\ updErr = "nil"

\* C6: createTSIGKey accepts exactly hmac-md5, hmac-sha1, hmac-sha256,
\* hmac-sha384, hmac-sha512 and the empty name, for which the key is an
\* hmac-sha256 key; with any other name a live UpdateRecords of a
\* non-empty record set returns the algorithm error and no message is
\* built or sent for any zone.
C6_AlgorithmAcceptance ==
    /\ createTSIGKey(NewClient(cfg)).ok <=>
          cfg.Bind.Algorithm \in
              {"hmac-md5", "hmac-sha1", "hmac-sha256", "hmac-sha384",
               "hmac-sha512", ""}
    /\ cfg.Bind.Algorithm = "" =>
          createTSIGKey(NewClient(cfg)).Algorithm = "hmac-sha256."
    /\ (Unsupported(cfg.Bind.Algorithm) /\ ~cfg.General.DryRun) =>
          /\ updPc \notin {"range", "sending"}
          /\ updMsg = NoMsg
          /\ Len(updRecords) > 0 => updErr = "tsig"

C6_Witness ==
    /\ Unsupported(cfg.Bind.Algorithm)
    /\ ~cfg.General.DryRun
    /\ Len(updRecords) > 0
    /\ updErr = "tsig"

\* C7: with an unsupported algorithm configured the run is aborted: no
\* stage is started, no roster is fetched, and Run does not return nil.
C7_UnsupportedAlgorithmIsFatal ==
    Unsupported(cfg.Bind.Algorithm) =>
        /\ StagesIdle
        /\ fetches = 0
        /\ runErr # "nil"

(***************************************************************************)
(* Claims about the synthesizer and the sanitizer.                         *)
(***************************************************************************)
IsAlnum(ch) == IsLetter(ch) \/ IsDigit(ch)

\* The text before the first '.'.
FirstLabel(name) ==
    IF IndexOf(name, ".") = 0 THEN name ELSE SubSeq(name, 1, IndexOf(name, ".") - 1)

\* Where the letter or digit at position i of the label lands in the
\* result: after the letters and digits before it, and after one hyphen
\* for every one of them that is followed by something else.
LandsAt(label, i) ==
    LET before == {j \in 1..(i - 1) : IsAlnum(label[j])}
    IN  1 + Cardinality(before)
          + Cardinality({j \in before : ~IsAlnum(label[j + 1])})

\* C10: sanitizeDNSName keeps the text before the first '.', turns every
\* character that is no letter, digit, '-' or '.' into '-', collapses runs
\* of '-', trims leading and trailing '-' and '.', lower-cases, and returns
\* "machine" when nothing is left: the letters and digits of the first
\* label survive in order, lower-cased, with exactly one '-' between two of
\* them that were not adjacent.  The result is never empty, holds only
\* a-z, 0-9 and '-', has no "--", and neither starts nor ends with '-'.
C10_SanitizeDNSName ==
    sanOut # NotReturned =>
        LET label == FirstLabel(sanName)
            kept  == {i \in DOMAIN label : IsAlnum(label[i])}
            last  == CHOOSE i \in kept : \A j \in kept : j <= i
        IN  /\ Len(sanOut) > 0
            /\ \A k \in DOMAIN sanOut :
                  sanOut[k] \in Range(LowerAlpha) \cup Range(Digits) \cup {"-"}
            /\ \A k \in 1..(Len(sanOut) - 1) :
                  ~(sanOut[k] = "-" /\ sanOut[k + 1] = "-")
            /\ sanOut[1] # "-"
            /\ sanOut[Len(sanOut)] # "-"
            /\ IF kept = {} THEN sanOut = Placeholder
               ELSE /\ Len(sanOut) = LandsAt(label, last)
                    /\ \A i \in kept :
                          sanOut[LandsAt(label, i)] = ToLowerChar(label[i])
                    /\ \A k \in DOMAIN sanOut :
                          (\A i \in kept : LandsAt(label, i) # k) => sanOut[k] = "-"

\* A name with an invalid character, an upper-case letter, a run of
\* hyphens and a leading hyphen has been sanitized.
C10_Witness ==
    /\ sanName = <<"_", "B", "_", "-", "7">>
    /\ sanOut = <<"b", "-", "7">>

Online(machines) == SelectSeq(machines, LAMBDA m : m.Online)

\* C8: an offline endpoint contributes no record, forward or reverse,
\* whatever its fields and the reverse configuration: the A/AAAA records
\* and the PTR records of a roster are those of its online endpoints
\* alone, at most two of each per online endpoint, and none when no
\* endpoint is online.
C8_OfflineNoRecord ==
    synPc = "returned" =>
        LET online == Online(synMachines)
        IN  /\ synRecords = machinesToRecords(NewApp(cfg), online)
            /\ synPTR = createPTRRecords(NewApp(cfg), online)
            /\ Len(synRecords) <= 2 * Len(online)
            /\ Len(synPTR) <= 2 * Len(online)
            /\ online = <<>> => synRecords = <<>> /\ synPTR = <<>>

\* An offline endpoint with both addresses, before an online one, with
\* IPv4 and IPv6 reverse records enabled.
C8_Witness ==
    /\ synPc = "returned"
    /\ cfg.Bind.PTR = PTRBoth
    /\ synMachines = << Machine(NodeID, NodeName, IPv4In, IPv6In, FALSE),
                        Machine(NodeID, NodeName, IPv4In, IPv6In, TRUE) >>
    /\ Len(synRecords) = 2
    /\ Len(synPTR) = 2

\* The forward records a roster stands for: (i, type) for every online
\* endpoint i and every address it has.
Forward(machines) ==
    {<<i, "A">> : i \in {j \in DOMAIN machines :
                          machines[j].Online /\ machines[j].IPv4Address # <<>>}}
    \cup
    {<<i, "AAAA">> : i \in {j \in DOMAIN machines :
                          machines[j].Online /\ machines[j].IPv6Address # <<>>}}

\* C9: machinesToRecords returns exactly one A record per online endpoint
\* with an IPv4 address and one AAAA record per online endpoint with an
\* IPv6 address, and nothing else (in roster order, A before AAAA); the
\* owner is the sanitized display name, or the sanitized ID when the name
\* is empty, the value is the address and the TTL is the configured TTL in
\* whole seconds.
C9_ForwardRecords ==
    synPc = "returned" =>
        LET want == Forward(synMachines)
            place(e) == 1 + Cardinality({f \in want :
                               \/ f[1] < e[1]
                               \/ f[1] = e[1] /\ f[2] = "A" /\ e[2] = "AAAA"})
        IN  /\ Len(synRecords) = Cardinality(want)
            /\ \A e \in want :
                  LET m == synMachines[e[1]]
                      r == synRecords[place(e)]
                  IN  /\ r.Type = e[2]
                      /\ r.Name = sanitizeDNSName(IF m.Name = <<>> THEN m.ID
                                                  ELSE m.Name)
                      /\ r.Value = (IF e[2] = "A" THEN m.IPv4Address
                                    ELSE m.IPv6Address)
                      /\ r.TTL * MsPerSecond <= cfg.Bind.TTL
                      /\ cfg.Bind.TTL < (r.TTL + 1) * MsPerSecond

\* An online endpoint without a name, with both addresses, under a TTL of
\* one and a half seconds.
C9_Witness ==
    /\ synPc = "returned"
    /\ cfg.Bind.TTL = OddTTL
    /\ synMachines = << Machine(NodeID, NodeName, IPv4In, <<>>, FALSE),
                        Machine(NodeID, <<>>, IPv4In, IPv6In, TRUE) >>
    /\ synRecords = << DNSRecord(<<"n", "1">>, IPv4In, 1, "A"),
                       DNSRecord(<<"n", "1">>, IPv6In, 1, "AAAA") >>

(***************************************************************************)
(* The reverse-name functions, under PTRSpec.                              *)
(***************************************************************************)
\* The texts net.ParseIP reads as an IPv4 address.
IPv4Family == IPv4Texts \cup {IPv4Mapped}

\* The subnet is one that holds the address: by the arithmetic of the
\* prefixes, 100.64.0.0/10 holds a.b.c.d exactly when a = 100 and
\* 64 <= b <= 127, and fd7a::/48 holds an address exactly when its first three
\* groups are fd7a, 0, 0.
Holds4(subnet, addr) ==
    \/ subnet = IPv4Any
    \/ /\ subnet = IPv4Net
       /\ \/ addr = IPv4Mapped
          \/ \E a \in {100}, b \in {n \in Octets : 64 <= n /\ n <= 127},
                c \in Octets, d \in Octets : addr = DottedQuad(a, b, c, d)

Holds6(subnet, addr) ==
    \/ subnet = IPv6Any
    \/ subnet = IPv6Net /\ addr \in {IPv6In, IPv6Upper, IPv6Long}

EndpointName == <<"w","e","b","-","1">>

\* The forward records of the endpoint with the one address addr and of
\* its neighbour.
ForwardOfBoth(addr) ==
    << DNSRecord(EndpointName, addr, DefaultTTL \div MsPerSecond,
                 IF addr \in IPv4Family THEN "A" ELSE "AAAA"),
       DNSRecord(Neighbour.Name, IPv4In, DefaultTTL \div MsPerSecond, "A"),
       DNSRecord(Neighbour.Name, IPv6In, DefaultTTL \div MsPerSecond, "AAAA") >>

\* C11: with reverse records enabled for its family, an address that the
\* family's validation subnet does not hold (an empty or malformed subnet
\* holds none) yields no PTR record and no error from CreatePTRRecord; the
\* endpoint's forward record is still emitted, and the neighbour's records,
\* forward and reverse, are what they are without that endpoint.
C11_OutsideSubnetNoPTR ==
    ptrPc = "returned" =>
        LET ptr == cfg.Bind.PTR
            outside4 == /\ ptr.Enabled
                        /\ ptrIP \in IPv4Family
                        /\ ~Holds4(ptr.IPv4Subnet, ptrIP)
            outside6 == /\ ptr.Enabled
                        /\ ptr.IPv6Enabled
                        /\ ptrIP \in IPv6Texts
                        /\ ~Holds6(ptr.IPv6Subnet, ptrIP)
        IN  outside4 \/ outside6 =>
                /\ ptrRec = NilRecord
                /\ synRecords = ForwardOfBoth(ptrIP)
                /\ synPTR = createPTRRecords(NewApp(cfg), <<Neighbour>>)

\* 100.255.0.0 under 100.64.0.0/10, with the neighbour's two PTR records.
C11_Witness ==
    /\ ptrPc = "returned"
    /\ cfg.Bind.PTR.Enabled
    /\ cfg.Bind.PTR.IPv6Enabled
    /\ cfg.Bind.PTR.IPv4Subnet = IPv4Net
    /\ ptrIP = DottedQuad(100, 255, 0, 0)
    /\ ptrRec = NilRecord
    /\ Len(synRecords) = 3
    /\ Len(synPTR) = 2

\* C12: a PTR record is produced for an IPv4 address only if reverse
\* records are enabled, and for an IPv6 address only if reverse records and
\* IPv6 reverse records are both enabled, by CreatePTRRecord and in the
\* records of the roster alike; with reverse records disabled the roster
\* yields forward records only.
C12_PTROnlyIfEnabled ==
    ptrPc = "returned" =>
        LET ptr == cfg.Bind.PTR
        IN  /\ ptrRec.rec # <<>> /\ ptrIP \in IPv4Family => ptr.Enabled
            /\ ptrRec.rec # <<>> /\ ptrIP \in IPv6Texts =>
                  ptr.Enabled /\ ptr.IPv6Enabled
            /\ \A i \in DOMAIN synPTR :
                  /\ HasSuffix(synPTR[i].Name, InAddrArpa \o Dot) => ptr.Enabled
                  /\ HasSuffix(synPTR[i].Name, Ip6Arpa \o Dot) =>
                        ptr.Enabled /\ ptr.IPv6Enabled
            /\ ~ptr.Enabled =>
                  /\ synPTR = <<>>
                  /\ \A i \in DOMAIN synRecords :
                        synRecords[i].Type \in {"A", "AAAA"}

\* An IPv6 address its subnet holds, with reverse records enabled and IPv6
\* reverse records disabled: no record for it, and the neighbour's IPv4 PTR
\* record alone.
C12_Witness ==
    /\ ptrPc = "returned"
    /\ cfg.Bind.PTR.Enabled
    /\ ~cfg.Bind.PTR.IPv6Enabled
    /\ cfg.Bind.PTR.IPv6Subnet = IPv6Any
    /\ ptrIP = IPv6Long
    /\ ptrRec = NilRecord
    /\ Len(synPTR) = 1
    /\ synPTR[1].Value = Neighbour.Name \o Dot \o ForwardZone

\* C13: for every IPv4 address a.b.c.d, generateIPv4PTRZone returns
\* "a.in-addr.arpa" for boundary 8, "b.a.in-addr.arpa" for boundary 16 and
\* "c.b.a.in-addr.arpa" for boundary 24, a, b, c being the dotted parts of
\* the text; it fails for every other boundary size, and for every text
\* that is no IPv4 address, IPv6 addresses included.
C13_IPv4Zone ==
    ptrPc = "returned" =>
        LET size  == cfg.Bind.PTR.IPv4SubnetSize
            parts == Split(ptrIP, ".")
        IN  /\ ptrIP \in IPv4Texts =>
                  /\ size = 8 =>
                        ptrZone4 = [ok |-> TRUE, zone |-> parts[1] \o InAddrArpa]
                  /\ size = 16 =>
                        ptrZone4 = [ok |-> TRUE,
                                    zone |-> parts[2] \o Dot \o parts[1]
                                             \o InAddrArpa]
                  /\ size = 24 =>
                        ptrZone4 = [ok |-> TRUE,
                                    zone |-> parts[3] \o Dot \o parts[2] \o Dot
                                             \o parts[1] \o InAddrArpa]
                  /\ size \notin {8, 16, 24} => ~ptrZone4.ok
            /\ ptrIP \in IPv6Texts \cup BadTexts => ~ptrZone4.ok

\* 100.64.0.255 at boundary 24.
C13_Witness ==
    /\ ptrPc = "returned"
    /\ cfg.Bind.PTR.IPv4SubnetSize = 24
    /\ ptrIP = DottedQuad(100, 64, 0, 255)
    /\ ptrZone4 = [ok |-> TRUE, zone |-> <<"0",".","6","4",".","1","0","0",".","i","n","-","a","d","d","r",".","a","r","p","a">>]

\* The 32 hexadecimal digits of the IPv6 texts, the most significant first.
Nibbles(addr) ==
    CASE addr = IPv6In    -> <<"f","d","7","a","0","0","0","0","0","0","0","0","0","0","0","0","0","0","0","0","0","0","0","0","0","0","0","0","0","0","0","1">>
      [] addr = IPv6Upper -> <<"f","d","7","a","0","0","0","0","0","0","0","0","0","0","0","0","0","0","0","0","0","0","0","0","0","0","0","0","0","0","0","a">>
      [] addr = IPv6Long  -> <<"f","d","7","a","0","0","0","0","0","0","0","0","0","0","1","2","3","4","5","6","7","8","9","a","b","c","d","e","f","0","0","1">>
      [] addr = IPv6Near  -> <<"f","d","7","a","0","0","0","0","0","0","0","1","0","0","0","0","0","0","0","0","0","0","0","0","0","0","0","0","0","0","0","1">>
      [] addr = IPv6Far   -> <<"2","0","0","1","0","d","b","8","0","0","0","0","0","0","0","0","0","0","0","0","0","0","0","0","0","0","0","0","0","0","f","f">>

\* The characters of s in reversed order, each a label of its own.
Reversed(s) == [i \in 1..Len(s) |-> <<s[Len(s) + 1 - i]>>]

\* C14: for every IPv6 address, generateIPv6PTRZone returns the 8
\* (boundary 32), 12 (boundary 48) or 16 (boundary 64) most significant
\* nibbles of the address in reversed order, dot-separated and followed by
\* ".ip6.arpa"; it fails for every other boundary size, and for every text
\* that is unparseable or an IPv4 address.
C14_IPv6Zone ==
    ptrPc = "returned" =>
        LET size == cfg.Bind.PTR.IPv6SubnetSize
        IN  /\ ptrIP \in IPv6Texts =>
                  /\ \A n \in {8, 12, 16} :
                        size = 4 * n =>
                            ptrZone6 =
                                [ok |-> TRUE,
                                 zone |-> Join(Reversed(SubSeq(Nibbles(ptrIP), 1, n)),
                                               Dot) \o Ip6Arpa]
                  /\ size \notin {32, 48, 64} => ~ptrZone6.ok
            /\ ptrIP \in IPv4Family \cup BadTexts => ~ptrZone6.ok

\* FD7A::A at boundary 48.
C14_Witness ==
    /\ ptrPc = "returned"
    /\ cfg.Bind.PTR.IPv6SubnetSize = 48
    /\ ptrIP = IPv6Upper
    /\ ptrZone6 = [ok |-> TRUE, zone |-> <<"0",".","0",".","0",".","0",".","0",".","0",".","0",".","0",".","a",".","7",".","d",".","f",".","i","p","6",".","a","r","p","a">>]

\* C15: round trip.  For every valid address and every legal boundary size
\* of its family (IPv4: 8, 16, 24; IPv6: 32, 48, 64), with that family's
\* reverse records enabled, the zone the grouping step derives from the
\* owner name of the PTR record CreatePTRRecord built is the zone the
\* generator of the family computes from the address.
C15_RoundTrip ==
    ptrPc = "returned" /\ ptrRec.rec # <<>> =>
        LET ptr == cfg.Bind.PTR
        IN  /\ /\ ptrIP \in IPv4Family
               /\ ptr.Enabled
               /\ ptr.IPv4SubnetSize \in {8, 16, 24}
               => ptrZone4.ok /\ ptrBack = ptrZone4.zone
            /\ /\ ptrIP \in IPv6Texts
               /\ ptr.Enabled
               /\ ptr.IPv6Enabled
               /\ ptr.IPv6SubnetSize \in {32, 48, 64}
               => ptrZone6.ok /\ ptrBack = ptrZone6.zone

(***************************************************************************)
(* UpdateRecords on a record set, under GroupSpec.                         *)
(***************************************************************************)
\* The labels of an owner name that ends with suffix and a dot, without
\* the suffix; none when it does not end so.
LabelsBefore(name, suffix) ==
    IF HasSuffix(name, suffix \o Dot)
    THEN Split(SubSeq(name, 1, Len(name) - Len(suffix) - 1), ".")
    ELSE <<>>

LastLabels(labels, n) == Join(SubSeq(labels, Len(labels) - n + 1, Len(labels)), Dot)

\* An owner name of four labels under in-addr.arpa, at a legal IPv4 boundary
\* size.
Resolvable4(c, name) ==
    /\ ~c.ptrConfig.Nil
    /\ c.ptrConfig.Enabled
    /\ c.ptrConfig.IPv4SubnetSize \in {8, 16, 24}
    /\ Len(LabelsBefore(name, InAddrArpa)) = 4

\* An owner name under ip6.arpa with the labels of the boundary size and at
\* least eight of them, at a legal IPv6 boundary size.
Resolvable6(c, name) ==
    /\ ~c.ptrConfig.Nil
    /\ c.ptrConfig.Enabled
    /\ c.ptrConfig.IPv6Enabled
    /\ c.ptrConfig.IPv6SubnetSize \in {32, 48, 64}
    /\ Len(LabelsBefore(name, Ip6Arpa)) >= c.ptrConfig.IPv6SubnetSize \div 4

\* The zone a record belongs to: the forward zone for A and AAAA, for PTR
\* the most significant labels of the owner name that the boundary size
\* stands for.
ZoneOfRecord(c, record) ==
    IF record.Type # "PTR" THEN c.zone
    ELSE IF Resolvable4(c, record.Name)
    THEN LastLabels(LabelsBefore(record.Name, InAddrArpa),
                    c.ptrConfig.IPv4SubnetSize \div 8) \o InAddrArpa
    ELSE LastLabels(LabelsBefore(record.Name, Ip6Arpa),
                    c.ptrConfig.IPv6SubnetSize \div 4) \o Ip6Arpa

Unresolvable(c, record) ==
    /\ record.Type = "PTR"
    /\ ~Resolvable4(c, record.Name)
    /\ ~Resolvable6(c, record.Name)

Grouped == grpPc = "returned" /\ ~grpDryRun

\* The name lies inside the zone: it is the zone's name or ends with a dot
\* and the zone's name.
Inside(name, zone) == name = Fqdn(zone) \/ HasSuffix(name, Dot \o Fqdn(zone))

\* C16: the grouping puts every A/AAAA record into the batch of the forward
\* zone and every PTR record into the batch of the reverse zone its owner
\* name stands for at the configured boundary size; every record of a batch
\* belongs to the zone of the batch, and the owner name of every operation
\* of a zone's transaction lies inside that zone.
C16_GroupedByZone ==
    Grouped =>
        /\ \A i \in DOMAIN grpRecords :
              ~Unresolvable(grpClient, grpRecords[i]) =>
                  /\ ZoneOfRecord(grpClient, grpRecords[i]) \in DOMAIN grpByZone
                  /\ grpRecords[i] \in
                        Range(grpByZone[ZoneOfRecord(grpClient, grpRecords[i])])
        /\ \A zone \in DOMAIN grpByZone :
              \A i \in DOMAIN grpByZone[zone] :
                  /\ ~Unresolvable(grpClient, grpByZone[zone][i])
                  /\ ZoneOfRecord(grpClient, grpByZone[zone][i]) = zone
        /\ \A zone \in DOMAIN grpMsgs :
              \A k \in DOMAIN grpMsgs[zone].Ns :
                  Inside(grpMsgs[zone].Ns[k].Name, zone)

\* C17: a PTR record whose zone cannot be resolved (an owner name that is
\* neither a four-label in-addr.arpa name nor a long-enough ip6.arpa name, a
\* boundary size outside the legal set, a PTR configuration absent or
\* disabled) is in no batch and in no transaction: every PTR operation of a
\* transaction is for a resolvable record of the zone's batch.
C17_UnresolvableDropped ==
    Grouped =>
        /\ \A i \in DOMAIN grpRecords :
              Unresolvable(grpClient, grpRecords[i]) =>
                  \A zone \in DOMAIN grpByZone :
                      grpRecords[i] \notin Range(grpByZone[zone])
        /\ \A zone \in DOMAIN grpMsgs :
              \A k \in DOMAIN grpMsgs[zone].Ns :
                  grpMsgs[zone].Ns[k].Rrtype = "PTR" =>
                      \E j \in DOMAIN grpByZone[zone] :
                          /\ ~Unresolvable(grpClient, grpByZone[zone][j])
                          /\ grpMsgs[zone].Ns[k].Name
                                = Fqdn(grpByZone[zone][j].Name)

\* The owner name and the value a record stands for in its zone: a PTR
\* record's own name and target, a forward record's name under the zone and
\* the bytes of its address.
OwnerIn(zone, record) ==
    IF record.Type = "PTR" THEN record.Name ELSE record.Name \o Dot \o zone \o Dot

ValueOf(record) ==
    CASE record.Type = "PTR"      -> record.Value \o Dot
      [] record.Value = IPv4In    -> <<0,0,0,0,0,0,0,0,0,0,255,255,100,64,1,1>>
      [] record.Value = IPv4Other -> <<0,0,0,0,0,0,0,0,0,0,255,255,100,64,0,255>>
      [] record.Value = IPv6In    -> <<253,122,0,0,0,0,0,0,0,0,0,0,0,0,0,1>>

\* C18: the transaction of a zone batch of N records has exactly 2N
\* operations: for the i-th record of the batch a delete-RRset of the
\* record's owner name and type, and right after it the insert of the
\* record with its owner name, type, TTL and value.
C18_TwoOperationsPerRecord ==
    Grouped =>
        \A zone \in DOMAIN grpMsgs :
            LET batch == grpByZone[zone]
                ns    == grpMsgs[zone].Ns
            IN  /\ Len(ns) = 2 * Len(batch)
                /\ \A i \in DOMAIN batch :
                      /\ ns[2 * i - 1] =
                            [op |-> "RemoveRRset", Name |-> OwnerIn(zone, batch[i]),
                             Rrtype |-> batch[i].Type, Ttl |-> 0, Data |-> <<>>]
                      /\ ns[2 * i] =
                            [op |-> "Insert", Name |-> OwnerIn(zone, batch[i]),
                             Rrtype |-> batch[i].Type, Ttl |-> batch[i].TTL,
                             Data |-> ValueOf(batch[i])]

\* A forward batch of an A and an AAAA record: four operations.
C18_Witness ==
    /\ Grouped
    /\ grpRecords = << DNSRecord(WebName, IPv4In, Seconds300, "A"),
                       DNSRecord(WebName, IPv6In, Seconds300, "AAAA") >>
    /\ ForwardZone \in DOMAIN grpMsgs
    /\ Len(grpMsgs[ForwardZone].Ns) = 4
    /\ grpMsgs[ForwardZone].Ns[3].op = "RemoveRRset"
    /\ grpMsgs[ForwardZone].Ns[3].Rrtype = "AAAA"

\* A zone as the server holds it: a set of resource records.  An update is
\* applied operation by operation (RFC 2136, 3.4.2): a delete-RRset removes
\* every record of the owner name and type, an insert adds its record.
RR(name, rrtype, ttl, data) ==
    [Name |-> name, Rrtype |-> rrtype, Ttl |-> ttl, Data |-> data]

ApplyOp(held, op) ==
    IF op.op = "RemoveRRset"
    THEN {rr \in held : ~(rr.Name = op.Name /\ rr.Rrtype = op.Rrtype)}
    ELSE held \cup {RR(op.Name, op.Rrtype, op.Ttl, op.Data)}

RECURSIVE Apply(_, _)
Apply(held, ns) ==
    IF Len(ns) = 0 THEN held ELSE Apply(ApplyOp(held, ns[1]), Tail(ns))

\* What a zone can hold before the update: for the forward zone an older
\* address of the endpoint, its present one, and another endpoint's; for a
\* reverse zone older targets of two owner names.
OldHost == <<"o","l","d",".","t","s",".","l","a","n",".">>

WebOwner == WebHost \o Dot

ForwardBefore ==
    SUBSET {RR(WebOwner, "A", 60, <<0,0,0,0,0,0,0,0,0,0,255,255,100,64,9,9>>),
            RR(WebOwner, "A", Seconds300,
               <<0,0,0,0,0,0,0,0,0,0,255,255,100,64,1,1>>),
            RR(<<"d","b",".","t","s",".","l","a","n",".">>, "A", Seconds300,
               <<0,0,0,0,0,0,0,0,0,0,255,255,100,64,1,1>>)}

ReverseBefore ==
    SUBSET {RR(PTR4Name, "PTR", 60, OldHost),
            RR(PTR4Name, "PTR", Seconds300, WebOwner),
            RR(PTR6Name, "PTR", 60, OldHost)}

ZonesBefore(zone) == IF zone = ForwardZone THEN ForwardBefore ELSE ReverseBefore

\* The records of the owner name and type of a record.
RRsetOf(held, zone, record) ==
    {rr \in held : rr.Name = OwnerIn(zone, record) /\ rr.Rrtype = record.Type}

\* The last record of the batch with the owner name and type of record.
LastOf(batch, record) ==
    batch[CHOOSE i \in DOMAIN batch :
            /\ batch[i].Name = record.Name
            /\ batch[i].Type = record.Type
            /\ \A j \in DOMAIN batch :
                  batch[j].Name = record.Name /\ batch[j].Type = record.Type
                      => j <= i]

\* C19: for every zone state and every batch, applying the batch's
\* transaction twice leaves the zone as applying it once does; after it the
\* owner name and type of every record of the batch has the new value alone,
\* whatever it had before, and the other records of the zone are as before.
C19_UpdateIdempotent ==
    Grouped =>
        \A zone \in DOMAIN grpMsgs :
            \A before \in ZonesBefore(zone) :
                LET batch == grpByZone[zone]
                    ns    == grpMsgs[zone].Ns
                    once  == Apply(before, ns)
                IN  /\ Apply(once, ns) = once
                    /\ \A i \in DOMAIN batch :
                          RRsetOf(once, zone, batch[i]) =
                              {RR(OwnerIn(zone, batch[i]), batch[i].Type,
                                  LastOf(batch, batch[i]).TTL,
                                  ValueOf(LastOf(batch, batch[i])))}
                    /\ \A rr \in before :
                          (\A i \in DOMAIN batch :
                              rr \notin RRsetOf(before, zone, batch[i]))
                              => rr \in once

\* The forward zone holds 100.64.9.9 for web-1.ts.lan. and the batch brings
\* 100.64.1.1: after the update the name has the one A record.
C19_Witness ==
    /\ Grouped
    /\ grpRecords = <<DNSRecord(WebName, IPv4In, Seconds300, "A")>>
    /\ ForwardZone \in DOMAIN grpMsgs
    /\ \E before \in ForwardBefore :
          /\ Cardinality(before) = 3
          /\ Cardinality(Apply(before, grpMsgs[ForwardZone].Ns)) = 2

(***************************************************************************)
(* The pipeline, under Spec.                                               *)
(***************************************************************************)
\* C20: no empty transaction is ever sent.  A record set on the record
\* channel, or about to be sent to it, is never empty; UpdateRecords with
\* an empty record set returns nil without entering the loop over the
\* zones; every batch holds a record and every message that is sent holds
\* operations.
C20_NoEmptyTransaction ==
    /\ \A i \in DOMAIN recordChan.buf : Len(recordChan.buf[i]) > 0
    /\ convPc = "sending" => Len(convRecords) > 0
    /\ Len(updRecords) = 0 =>
          /\ updPc \notin {"range", "sending"}
          /\ updErr \in {"none", "nil"}
          /\ updByZone = <<>>
          /\ updMsg = NoMsg
    /\ \A zone \in DOMAIN updByZone : Len(updByZone[zone]) > 0
    /\ updPc = "sending" => Len(updMsg.Ns) > 0

\* In a live run, after a roster was fetched, the updater has received nil
\* from the closed record channel and UpdateRecords has returned nil for it.
C20_Witness ==
    /\ ~cfg.General.DryRun
    /\ fetches > 0
    /\ recordChan.closed
    /\ updPc = "loop"
    /\ Len(updRecords) = 0
    /\ updErr = "nil"

(***************************************************************************)
(* Claims about the order and the pace of the pipeline.                    *)
(***************************************************************************)
\* The record sets the rosters of a sequence come to, in order: a roster
\* without records comes to no record set.
RECURSIVE RecordSetsOf(_, _)
RecordSetsOf(c, rosters) ==
    IF Len(rosters) = 0 THEN <<>>
    ELSE LET allRecords == allRecordsOf(c, Head(rosters))
         IN  IF Len(allRecords) = 0 THEN RecordSetsOf(c, Tail(rosters))
             ELSE <<allRecords>> \o RecordSetsOf(c, Tail(rosters))

IsPrefix(s, t) ==
    /\ Len(s) <= Len(t)
    /\ \A i \in 1..Len(s) : s[i] = t[i]

\* C21: the record sets reach UpdateRecords in the order in which
\* StartPolling published their rosters, and each of them is all the records
\* of one roster and of no other: what UpdateRecords has been handed is
\* the beginning of what the published rosters come to.
C21_SnapshotOrder ==
    IsPrefix(handed, RecordSetsOf(cfg, published))

\* Two rosters with different records were published and both record sets
\* have reached UpdateRecords.
C21_Witness ==
    /\ Len(handed) = 2
    /\ handed[1] # handed[2]
    /\ Len(published) = 2

\* C22: after its first receive StartUpdating takes a record set only when
\* its ticker has fired, by the receive that does not block: UpdateRecords
\* never works on a record set that a case of the loop's select other than
\* the tick has received.
C22_OnlyOnTick ==
    ~(updVia = "receive" /\ Len(updRecords) > 0)

\* StartPolling fetches once at its start and once for every tick its
\* select takes.
FetchPacing ==
    IF pollPc \in {"idle", "start"}
    THEN fetches = 0 /\ ticks = 0
    ELSE fetches = ticks + 1

\* The roster StartPolling holds and has not sent yet.
Unsent == IF pollPc = "sending" THEN 1 ELSE 0

\* C23, as stated: StartPolling fetches first at its start, before any
\* tick, then once per tick it handles, and every fetch that returned a
\* roster publishes exactly one.
C23_OneSnapshotPerFetch ==
    /\ FetchPacing
    /\ fetched = Len(published) + Unsent

\* C23, amended: StartPolling fetches first at its start, before any tick,
\* then once per tick it handles, and every fetch that returned a roster
\* publishes exactly one, but for the last one when the cancellation is
\* raised before it is sent: that one may stay unpublished.
C23_OneSnapshotUnlessCancelled ==
    /\ FetchPacing
    /\ \/ fetched = Len(published) + Unsent
       \/ /\ ctxDone
          /\ pollPc = "done"
          /\ fetched = Len(published) + 1

\* Two fetches, the second on a tick, both published, and no cancellation.
C23_Witness ==
    /\ ~ctxDone
    /\ ticks = 1
    /\ fetches = 2
    /\ fetched = 2
    /\ Len(published) = 2
    /\ pollPc = "select"

(***************************************************************************)
(* Claims about what a transaction leaves in the zone, under GroupSpec.    *)
(***************************************************************************)
\* The operation inserts a record of the owner name and type of rr.
Overwrites(op, rr) ==
    op.op = "Insert" /\ op.Name = rr.Name /\ op.Rrtype = rr.Rrtype

\* C24: no record is removed without one being inserted in its place.  In
\* every transaction a delete-RRset is followed at once by an insert for the
\* same owner name and type; and whatever the zone held before, a record of
\* it is still there after the transaction unless the transaction inserts a
\* record of its owner name and type: the record of an endpoint that is no
\* longer in the batch stays.
C24_NoRemovalWithoutInsert ==
    Grouped =>
        \A zone \in DOMAIN grpMsgs :
            LET ns == grpMsgs[zone].Ns
            IN  /\ \A k \in DOMAIN ns :
                      ns[k].op = "RemoveRRset" =>
                          /\ k < Len(ns)
                          /\ Overwrites(ns[k + 1], ns[k])
                /\ \A before \in ZonesBefore(zone) :
                      \A rr \in before :
                          \/ rr \in Apply(before, ns)
                          \/ \E k \in DOMAIN ns : Overwrites(ns[k], rr)

\* A reverse zone holds the record of an endpoint that is gone and the
\* former target of one that is in the batch: after the transaction the first
\* is still there and the second is not.
C24_Witness ==
    /\ Grouped
    /\ grpRecords = <<DNSRecord(PTR4Name, WebHost, Seconds300, "PTR")>>
    /\ \E zone \in DOMAIN grpMsgs :
          \E before \in ReverseBefore :
              /\ RR(PTR6Name, "PTR", 60, OldHost) \in before
              /\ RR(PTR4Name, "PTR", 60, OldHost) \in before
              /\ RR(PTR6Name, "PTR", 60, OldHost)
                    \in Apply(before, grpMsgs[zone].Ns)
              /\ RR(PTR4Name, "PTR", 60, OldHost)
                    \notin Apply(before, grpMsgs[zone].Ns)

(***************************************************************************)
(* Errors of CreatePTRRecord, under SynthSpec.                             *)
(***************************************************************************)
\* What CreatePTRRecord gives for one address of the machine.
PTROfAddress(machine, ipStr) ==
    PTRIfAny(NewApp(cfg).bindClient, ipStr,
             recordName(machine) \o Dot \o cfg.Bind.Zone)

\* C25: an error of CreatePTRRecord costs the one record.  Every reverse
\* record CreatePTRRecord builds for an address of an online machine is in
\* the result of createPTRRecords, whether or not the machine's other
\* address, or another machine's, made CreatePTRRecord fail.
C25_ErrorIsPerRecord ==
    (synPc = "returned" /\ cfg.Bind.PTR.Enabled) =>
        \A i \in DOMAIN synMachines :
            synMachines[i].Online =>
                \A ipStr \in {synMachines[i].IPv4Address,
                              synMachines[i].IPv6Address} :
                    \A j \in DOMAIN PTROfAddress(synMachines[i], ipStr).rec :
                        \E k \in DOMAIN synPTR :
                            synPTR[k] =
                                PTROfAddress(synMachines[i], ipStr).rec[j]

(***************************************************************************)
(* Config.Validate, under ValidateSpec.                                    *)
(***************************************************************************)
Accepted == vdPc = "returned" /\ vdErr = "nil"

\* C26: a configuration Validate accepts has, when reverse records are
\* enabled, an IPv4 subnet that is a well-formed CIDR and an IPv4 size of 8,
\* 16 or 24, and, when IPv6 reverse records are enabled as well, an IPv6
\* subnet that is a well-formed CIDR and an IPv6 size of 32, 48 or 64.
C26_AcceptedIsWellFormed ==
    Accepted =>
        /\ vdConfig.Bind.PTR.Enabled =>
              /\ ParseCIDR(vdConfig.Bind.PTR.IPv4Subnet).ok
              /\ vdConfig.Bind.PTR.IPv4SubnetSize \in {8, 16, 24}
        /\ (vdConfig.Bind.PTR.Enabled /\ vdConfig.Bind.PTR.IPv6Enabled) =>
              /\ ParseCIDR(vdConfig.Bind.PTR.IPv6Subnet).ok
              /\ vdConfig.Bind.PTR.IPv6SubnetSize \in {32, 48, 64}

(***************************************************************************)
(* Errors and shutdown of the pipeline, under Spec.                        *)
(***************************************************************************)
\* The errors UpdateRecords returns.
UpdateErrors == {"tsig", "transport", "rcode"}

\* C27: past the startup check no error stops a stage.  A stage has returned
\* only if the cancellation was raised; a fetch that failed has published
\* nothing; and when UpdateRecords has returned an error StartUpdating is
\* back in its loop, where it takes the next record set.
C27_ErrorsStopNoStage ==
    /\ (pollPc = "done" \/ convPc = "done" \/ updPc = "done" \/ panicked)
          => ctxDone
    /\ Len(published) <= fetched
    /\ updErr \in UpdateErrors =>
          \/ updPc = "loop"
          \/ updPc = "done" /\ ctxDone

\* The first fetch failed and the fetch of the next tick was published; the
\* update of its record set failed and StartUpdating is in its loop, with no
\* cancellation.
C27_Witness ==
    /\ ~ctxDone
    /\ fetches = 2
    /\ fetched = 1
    /\ Len(published) = 1
    /\ updErr = "transport"
    /\ updPc = "loop"

\* C28: in no interleaving of the shutdown does a stage send on a channel
\* that is already closed: no goroutine panics.
C28_NoSendOnClosedChannel ==
    ~panicked

(***************************************************************************)
(* Back-pressure, under FairDrainSpec.                                     *)
(***************************************************************************)
\* The rosters convertMachinesToRecords has received.
Consumed == SubSeq(published, 1, Len(published) - Len(machineChan.buf))

\* The record sets convertMachinesToRecords has sent: the ones passed to
\* UpdateRecords and the ones a.recordChan holds.
Sent == handed \o recordChan.buf

\* The record set convertMachinesToRecords holds and has not sent yet.
ConvHeld == IF convPc = "sending" THEN <<convRecords>> ELSE <<>>

\* While the cancellation is not raised nothing is lost: a channel never
\* holds more than its capacity, every roster fetched is published or held
\* by StartPolling, and the record sets of the rosters received are, in
\* order and each once, the ones passed to UpdateRecords, the ones in the
\* channel and the one convertMachinesToRecords holds.
NothingDropped ==
    ~ctxDone =>
        /\ Len(machineChan.buf) <= ChanCap
        /\ Len(recordChan.buf) <= ChanCap
        /\ fetched = Len(published) + Unsent
        /\ RecordSetsOf(cfg, Consumed) = Sent \o ConvHeld

\* C29: while the cancellation is not raised no record set is dropped or
\* overwritten, a full channel making the sender wait; and with fair
\* scheduling every record set convertMachinesToRecords has sent is
\* eventually passed to UpdateRecords.
C29_BackPressure ==
    /\ []NothingDropped
    /\ \A k \in 1..(2 * ChanCap + 2) :
          (Len(Sent) >= k) ~> (Len(handed) >= k)

\* From the state with both channels full and both senders waiting, every
\* record set, the ones that had to wait included, has reached
\* UpdateRecords.
C29_Witness ==
    /\ ~ctxDone
    /\ Len(handed) = 2 * ChanCap + 2
    /\ Len(recordChan.buf) = 0

\* C30: when records of one batch share their owner name and type, the
\* transaction leaves that owner name and type with exactly one record,
\* whatever the zone held before: the one of the last of them in the batch.
C30_LastOfBatchWins ==
    Grouped =>
        \A zone \in DOMAIN grpMsgs :
            \A i, j \in DOMAIN grpByZone[zone] :
                (/\ i < j
                 /\ grpByZone[zone][i].Name = grpByZone[zone][j].Name
                 /\ grpByZone[zone][i].Type = grpByZone[zone][j].Type) =>
                    \A before \in ZonesBefore(zone) :
                        LET after == RRsetOf(Apply(before, grpMsgs[zone].Ns),
                                             zone, grpByZone[zone][i])
                            last  == LastOf(grpByZone[zone], grpByZone[zone][i])
                        IN  /\ Cardinality(after) = 1
                            /\ \A rr \in after :
                                  /\ rr.Data = ValueOf(last)
                                  /\ rr.Ttl = last.TTL

\* Two A records for web-1 in one batch, 100.64.1.1 and then 100.64.0.255:
\* the forward zone, which held 100.64.9.9 and 100.64.1.1 for the name, is
\* left with 100.64.0.255 alone.
C30_Witness ==
    /\ Grouped
    /\ grpRecords = << DNSRecord(WebName, IPv4In, Seconds300, "A"),
                       DNSRecord(WebName, IPv4Other, Seconds300, "A") >>
    /\ ForwardZone \in DOMAIN grpMsgs
    /\ \E before \in ForwardBefore :
          /\ Cardinality({rr \in before : rr.Name = WebOwner}) = 2
          /\ {rr \in Apply(before, grpMsgs[ForwardZone].Ns) :
                 rr.Name = WebOwner} =
                {RR(WebOwner, "A", Seconds300,
                    <<0,0,0,0,0,0,0,0,0,0,255,255,100,64,0,255>>)}

=============================================================================
